---------------------------- MODULE Spec2Model ----------------------------
(***************************************************************************)
(* A model of thermofeel-rs: the thermal-comfort index functions of        *)
(* src/src/lib.rs and the unit conversions of src/src/helpers.rs, and a    *)
(* caller that invokes them one call at a time.                            *)
(*                                                                         *)
(* The program computes on f64.  The model computes on a binary floating   *)
(* point format of the same shape with a shorter mantissa (Prec bits) and  *)
(* the same largest exponent: every arithmetic operation is rounded to     *)
(* nearest (ties to even), a result of magnitude 2^1024 or more and a      *)
(* division by zero give an infinity, an invalid operation gives NaN.      *)
(* A value is a record                                                     *)
(*     [c |-> "fin", m |-> mantissa, e |-> exponent]    m * 2^e            *)
(*     [c |-> "inf", m |-> 1 or -1,  e |-> 0]                              *)
(*     [c |-> "nan", m |-> 0,        e |-> 0]                              *)
(* with m = 0 (and e = 0) or 2^(Prec-1) <= |m| < 2^Prec.                   *)
(***************************************************************************)
EXTENDS Integers, Sequences, FiniteSets, TLC

\* Mantissa width of the model's floating point format (f64 has 53).
Prec == 14

TwoP == 2^Prec
HalfP == 2^(Prec - 1)

Zero == [c |-> "fin", m |-> 0, e |-> 0]
NaN == [c |-> "nan", m |-> 0, e |-> 0]
Inf(s) == [c |-> "inf", m |-> s, e |-> 0]

\* Every finite f64 is below 2^MaxExp in magnitude.
MaxExp == 1024

\* m * 2^e with m a full mantissa (or 0): an infinity when it overflows.
Fin(m, e) ==
    IF m # 0 /\ e + Prec > MaxExp THEN Inf(IF m < 0 THEN -1 ELSE 1)
    ELSE [c |-> "fin", m |-> m, e |-> e]

IAbs(n) == IF n < 0 THEN -n ELSE n
ISgn(n) == IF n < 0 THEN -1 ELSE IF n > 0 THEN 1 ELSE 0

\* "let x = e;" followed by the rest of the block, F: e is evaluated once.
Let(e, F(_)) == F(e)

\* The number of bits of a (0 <= a < 2^31).
RECURSIVE BitLen(_)
BitLen(a) ==
    IF a < 2 THEN a
    ELSE IF a < 4 THEN 2
    ELSE IF a < 8 THEN 3
    ELSE IF a < 16 THEN 4
    ELSE 4 + BitLen(a \div 16)

\* The float nearest n * 2^e when |n| has sh bits more than a mantissa holds:
\* the sh low bits are rounded off, ties to even.
RoundOff(n, e, sh) ==
    Let(IAbs(n) \div 2^sh, LAMBDA q :
    Let(2 * (IAbs(n) % 2^sh), LAMBDA r2 :
    Let(IF r2 > 2^sh \/ (r2 = 2^sh /\ q % 2 = 1) THEN q + 1 ELSE q, LAMBDA q1 :
    IF q1 = TwoP THEN Fin(ISgn(n) * HalfP, e + sh + 1)
    ELSE Fin(ISgn(n) * q1, e + sh))))

\* The float nearest n * 2^e (ties to even), n an integer.
Round(n, e) ==
    IF n = 0 THEN Zero
    ELSE Let(BitLen(IAbs(n)), LAMBDA L :
         IF L <= Prec THEN Fin(n * 2^(Prec - L), e - (Prec - L))
         ELSE RoundOff(n, e, L - Prec))

FromInt(n) == Round(n, 0)

IsNaN(x) == x.c = "nan"
IsFinite(x) == x.c = "fin"
FSign(x) == ISgn(x.m)

FNeg(x) == [x EXCEPT !.m = -x.m]
FAbs(x) == [x EXCEPT !.m = IAbs(x.m)]

FAdd(x, y) ==
    IF x.c = "nan" \/ y.c = "nan" THEN NaN
    ELSE IF x.c = "inf" THEN (IF y.c = "inf" /\ y.m # x.m THEN NaN ELSE x)
    ELSE IF y.c = "inf" THEN y
    ELSE IF x.m = 0 THEN y
    ELSE IF y.m = 0 THEN x
    ELSE Let(IF x.e >= y.e THEN <<x, y>> ELSE <<y, x>>, LAMBDA p :
         IF p[1].e - p[2].e >= Prec + 2 THEN p[1]
         ELSE Round(p[1].m * 2^(p[1].e - p[2].e) + p[2].m, p[2].e))

FSub(x, y) == FAdd(x, FNeg(y))

FMul(x, y) ==
    IF x.c = "nan" \/ y.c = "nan" THEN NaN
    ELSE IF x.c = "inf" \/ y.c = "inf"
         THEN (IF x.m = 0 \/ y.m = 0 THEN NaN ELSE Inf(ISgn(x.m) * ISgn(y.m)))
    ELSE Round(x.m * y.m, x.e + y.e)

FDiv(x, y) ==
    IF x.c = "nan" \/ y.c = "nan" THEN NaN
    ELSE IF x.c = "inf" THEN (IF y.c = "inf" THEN NaN
                              ELSE Inf(x.m * (IF y.m < 0 THEN -1 ELSE 1)))
    ELSE IF y.c = "inf" THEN Zero
    ELSE IF y.m = 0 THEN (IF x.m = 0 THEN NaN ELSE Inf(ISgn(x.m)))
    ELSE IF x.m = 0 THEN Zero
    ELSE Let(IAbs(x.m) * 2^(Prec + 1), LAMBDA n :
         Round(ISgn(x.m) * ISgn(y.m)
                   * (2 * (n \div IAbs(y.m)) + (IF n % IAbs(y.m) = 0 THEN 0 ELSE 1)),
               x.e - y.e - Prec - 2))

\* Comparisons; every comparison with NaN is false, as for f64.
FLt(x, y) ==
    IF x.c = "nan" \/ y.c = "nan" THEN FALSE
    ELSE IF x.c = "inf" \/ y.c = "inf"
         THEN (IF x.c = "inf" /\ y.c = "inf" THEN x.m < y.m
               ELSE IF x.c = "inf" THEN x.m < 0 ELSE y.m > 0)
    ELSE FSub(x, y).m < 0
FEq(x, y) == x.c # "nan" /\ y.c # "nan" /\ x = y
FLe(x, y) == FLt(x, y) \/ FEq(x, y)
FGt(x, y) == FLt(y, x)
FGe(x, y) == FLe(y, x)

\* 10^k as a float, 0 <= k <= 27.
RECURSIVE F10(_)
F10(k) == IF k <= 9 THEN FromInt(10^k) ELSE FMul(FromInt(10^9), F10(k - 9))

\* The decimal literal n * 10^k.
Dec(n, k) ==
    Let(F10(IAbs(k)), LAMBDA p :
    IF k >= 0 THEN FMul(FromInt(n), p) ELSE FDiv(FromInt(n), p))

\* Truncation toward zero of a finite float to an integer (|x| < 2^30).
FTrunc(x) ==
    IF x.e >= 0 THEN x.m * 2^x.e
    ELSE IF -x.e >= Prec + 1 THEN 0
    ELSE ISgn(x.m) * (IAbs(x.m) \div 2^(-x.e))

\* The integer nearest a finite float (|x| < 2^30).
FNearest(x) ==
    IF x.e >= 0 THEN x.m * 2^x.e
    ELSE IF -x.e >= Prec + 2 THEN 0
    ELSE ISgn(x.m) * ((IAbs(x.m) + 2^(-x.e - 1)) \div 2^(-x.e))

IsInteger(x) == x.c = "fin" /\ (x.e >= 0 \/ (-x.e <= Prec /\ x.m % 2^(-x.e) = 0))

RECURSIVE ISqrtFrom(_, _)
ISqrtFrom(n, s) ==
    IF (s + n \div s) \div 2 >= s THEN s ELSE ISqrtFrom(n, (s + n \div s) \div 2)

\* f64::sqrt, correctly rounded.
FSqrt(x) ==
    IF x.c = "nan" THEN NaN
    ELSE IF x.m < 0 THEN NaN
    ELSE IF x.c = "inf" \/ x.m = 0 THEN x
    ELSE Let(IF (x.e - Prec) % 2 = 0 THEN Prec ELSE Prec - 1, LAMBDA k :
         Let(ISqrtFrom(x.m * 2^k, TwoP), LAMBDA s :
         Round(IF x.m * 2^k > s * s + s THEN s + 1 ELSE s, (x.e - k) \div 2)))

One == FromInt(1)
Two == FromInt(2)
LN2 == Dec(693147181, -9)
LN10 == Dec(230258509, -8)
PI == Dec(314159265, -8)
HALF_PI == Dec(157079633, -8)
QUARTER_PI == Dec(785398163, -9)
TAN_PI_8 == Dec(414213562, -9)
SQRT2 == Dec(141421356, -8)

\* x * 2^k, exact.
FScale(x, k) == IF x.c = "fin" /\ x.m # 0 THEN [x EXCEPT !.e = x.e + k] ELSE x

\* Horner's rule for the exponential series: acc becomes 1 + (r / i) * acc
\* for i, i - 1, ..., 1.
RECURSIVE ExpHorner(_, _, _)
ExpHorner(r, i, acc) ==
    IF i < 1 THEN acc
    ELSE ExpHorner(r, i - 1, FAdd(One, FMul(FDiv(r, FromInt(i)), acc)))

\* sum of r^i / i! for i = 0 .. 7, by Horner's rule.
ExpSeries(r) == ExpHorner(r, 7, One)

\* f64::exp: exp(x) = 2^k * exp(r), x = k ln 2 + r, |r| <= (ln 2) / 2.
FExp(x) ==
    IF x.c = "nan" THEN NaN
    ELSE IF x.c = "inf" THEN (IF x.m > 0 THEN x ELSE Zero)
    ELSE IF FLt(FromInt(709), x) THEN Inf(1)
    ELSE IF FLt(x, FromInt(-745)) THEN Zero
    ELSE Let(FNearest(FDiv(x, LN2)), LAMBDA k :
         Let(FSub(x, FMul(FromInt(k), LN2)), LAMBDA r :
         FScale(ExpSeries(r), k)))

\* acc becomes 1 / i + z2 * acc for i, i - 2, ..., 1.
RECURSIVE LnHorner(_, _, _)
LnHorner(z2, i, acc) ==
    IF i < 1 THEN acc
    ELSE LnHorner(z2, i - 2, FAdd(FDiv(One, FromInt(i)), FMul(z2, acc)))

\* 2 * atanh(z) = 2 (z + z^3/3 + z^5/5 + z^7/7 + z^9/9)
LnSeries(z) ==
    FMul(Two, FMul(z, LnHorner(FMul(z, z), 7, FDiv(One, FromInt(9)))))

\* f64::ln: ln(f * 2^k) = k ln 2 + ln f, f in [sqrt(1/2), sqrt 2).
FLn(x) ==
    IF x.c = "nan" THEN NaN
    ELSE IF x.m < 0 THEN NaN
    ELSE IF x.c = "inf" THEN x
    ELSE IF x.m = 0 THEN Inf(-1)
    ELSE Let(FLt(SQRT2, Fin(x.m, 1 - Prec)), LAMBDA big :
         Let(Fin(x.m, (IF big THEN 0 ELSE 1) - Prec), LAMBDA f :
         Let(x.e + Prec - 1 + (IF big THEN 1 ELSE 0), LAMBDA k :
         Let(FDiv(FSub(f, One), FAdd(f, One)), LAMBDA z :
         FAdd(FMul(FromInt(k), LN2), LnSeries(z))))))

\* f64::log10
FLog10(x) == FDiv(FLn(x), LN10)

\* f64::powf
FPowf(x, y) ==
    IF y.c = "fin" /\ y.m = 0 THEN One
    ELSE IF x.c = "nan" \/ y.c = "nan" THEN NaN
    ELSE IF x = One THEN One
    ELSE IF x.c = "fin" /\ x.m = 0 THEN (IF y.m > 0 THEN Zero ELSE Inf(1))
    ELSE IF x.m < 0 /\ x.c = "inf" THEN (IF y.m > 0 THEN Inf(1) ELSE Zero)
    ELSE IF x.m < 0 /\ ~IsInteger(y) THEN NaN
    ELSE Let(FExp(FMul(y, FLn(FAbs(x)))), LAMBDA r :
         IF x.m < 0 /\ y.e <= 0 /\ FTrunc(y) % 2 # 0 THEN FNeg(r) ELSE r)

RECURSIVE PowNat(_, _)
PowNat(x, n) ==
    IF n = 0 THEN One
    ELSE IF n = 1 THEN x
    ELSE IF n % 2 = 0 THEN Let(PowNat(x, n \div 2), LAMBDA h : FMul(h, h))
    ELSE FMul(x, PowNat(x, n - 1))

\* f64::powi
FPowi(x, n) == IF n >= 0 THEN PowNat(x, n) ELSE FDiv(One, PowNat(x, -n))

\* acc becomes 1 / i - z2 * acc for i, i - 2, ..., 1.
RECURSIVE AtanHorner(_, _, _)
AtanHorner(z2, i, acc) ==
    IF i < 1 THEN acc
    ELSE AtanHorner(z2, i - 2, FSub(FDiv(One, FromInt(i)), FMul(z2, acc)))

\* z - z^3/3 + z^5/5 - ... - z^11/11
AtanSeries(z) ==
    FMul(z, AtanHorner(FMul(z, z), 9, FDiv(One, FromInt(11))))

AtanUnit(x) ==
    Let(IF FLt(TAN_PI_8, x)
        THEN <<QUARTER_PI, FDiv(FSub(x, One), FAdd(x, One))>>
        ELSE <<Zero, x>>,
        LAMBDA p :
    FAdd(p[1], AtanSeries(p[2])))

AtanPos(x) ==
    IF x.c = "inf" THEN HALF_PI
    ELSE Let(AtanUnit(IF FLt(One, x) THEN FDiv(One, x) ELSE x), LAMBDA r :
         IF FLt(One, x) THEN FSub(HALF_PI, r) ELSE r)

\* f64::atan
FAtan(x) ==
    IF x.c = "nan" THEN NaN
    ELSE Let(AtanPos(FAbs(x)), LAMBDA r : IF x.m < 0 THEN FNeg(r) ELSE r)

\* f64::asin
FAsin(x) ==
    IF x.c # "fin" THEN NaN
    ELSE IF FLt(One, FAbs(x)) THEN NaN
    ELSE IF FAbs(x) = One THEN (IF x.m > 0 THEN HALF_PI ELSE FNeg(HALF_PI))
    ELSE FAtan(FDiv(x, FSqrt(FSub(One, FMul(x, x)))))

\* acc becomes 1 - z2 / (i (i - 1)) * acc for i, i - 2, ..., 2.
RECURSIVE CosHorner(_, _, _)
CosHorner(z2, i, acc) ==
    IF i < 2 THEN acc
    ELSE CosHorner(z2, i - 2, FSub(One, FMul(FDiv(z2, FromInt(i * (i - 1))), acc)))

\* 1 - z^2/2! + z^4/4! - ... + z^12/12!
CosSeries(z) == CosHorner(FMul(z, z), 12, One)

\* f64::cos, the argument reduced to [-pi, pi] and then to [0, pi/2].
FCos(x) ==
    IF x.c # "fin" THEN NaN
    ELSE Let(FNearest(FDiv(x, FMul(Two, PI))), LAMBDA k :
         Let(FAbs(FSub(x, FMul(FromInt(2 * k), PI))), LAMBDA r :
         Let(CosSeries(IF FLt(HALF_PI, r) THEN FSub(PI, r) ELSE r), LAMBDA c :
         IF FLt(HALF_PI, r) THEN FNeg(c) ELSE c)))

\* The decimal literal (10 n + d) * 10^k, for literals of ten digits.
DecL(n, d, k) == FAdd(Dec(n, k + 1), Dec(d, k))

\* arr[i] with the program's zero-based index; the arrays hold each literal
\* n * 10^k as <<n, k>> and each ten-digit literal (10 n + d) * 10^k as
\* <<n, d, k>>.
At(arr, i) ==
    IF Len(arr[i + 1]) = 2 THEN Dec(arr[i + 1][1], arr[i + 1][2])
    ELSE DecL(arr[i + 1][1], arr[i + 1][2], arr[i + 1][3])

(***************************************************************************)
(* Results.  A function returning f64 yields a float; a function returning *)
(* Option<f64> yields Some(x) or None; a call that panics yields Panic.    *)
(***************************************************************************)
Some(x) == [tag |-> "Some", v |-> x, msg |-> ""]
None == [tag |-> "None", v |-> Zero, msg |-> ""]
Num(x) == [tag |-> "Num", v |-> x, msg |-> ""]
Panic(msg) == [tag |-> "Panic", v |-> Zero, msg |-> msg]

(***************************************************************************)
(* src/src/helpers.rs                                                      *)
(***************************************************************************)
celsius_to_kelvin(tc) == FAdd(tc, Dec(27315, -2))

kelvin_to_celsius(tk) == FSub(tk, Dec(27315, -2))

kelvin_to_fahrenheit(tk) ==
    FAdd(FDiv(FMul(FSub(tk, Dec(27315, -2)), Dec(90, -1)), Dec(50, -1)), Dec(320, -1))

fahrenheit_to_celsius(tf) ==
    FDiv(FMul(FSub(tf, Dec(320, -1)), Dec(50, -1)), Dec(90, -1))

\* fahrenheit_to_kelvin with the offset of the freezing point, 491.67.
fahrenheit_to_kelvin_from_freezing(tf) ==
    FDiv(FMul(FAdd(tf, Dec(49167, -2)), Dec(50, -1)), Dec(90, -1))

\* fahrenheit_to_kelvin without the offset to Kelvin (the Celsius formula).
fahrenheit_to_kelvin_as_celsius(tf) ==
    FDiv(FMul(FSub(tf, Dec(320, -1)), Dec(50, -1)), Dec(90, -1))

fahrenheit_to_kelvin(tf) ==
    FDiv(FMul(FAdd(tf, Dec(45967, -2)), Dec(50, -1)), Dec(90, -1))

(***************************************************************************)
(* src/src/lib.rs                                                          *)
(***************************************************************************)
calculate_relative_humidity_percent_clamped(t2_k, td_k) ==
    Let(kelvin_to_celsius(t2_k), LAMBDA t2_c :
    Let(kelvin_to_celsius(td_k), LAMBDA td_c :
    Let(FMul(Dec(611, -2),
             FPowf(Dec(100, -1),
                   FDiv(FMul(Dec(75, -1), t2_c), FAdd(Dec(2373, -1), t2_c)))),
        LAMBDA es :
    Let(FMul(Dec(611, -2),
             FPowf(Dec(100, -1),
                   FDiv(FMul(Dec(75, -1), td_c), FAdd(Dec(2373, -1), td_c)))),
        LAMBDA e :
    Let(FMul(FDiv(e, es), Dec(1000, -1)), LAMBDA rh :
    IF FLt(Dec(1000, -1), rh) THEN Dec(1000, -1) ELSE rh)))))

calculate_relative_humidity_percent(t2_k, td_k) ==
    Let(kelvin_to_celsius(t2_k), LAMBDA t2_c :
    Let(kelvin_to_celsius(td_k), LAMBDA td_c :
    Let(FMul(Dec(611, -2),
             FPowf(Dec(100, -1),
                   FDiv(FMul(Dec(75, -1), t2_c), FAdd(Dec(2373, -1), t2_c)))),
        LAMBDA es :
    Let(FMul(Dec(611, -2),
             FPowf(Dec(100, -1),
                   FDiv(FMul(Dec(75, -1), td_c), FAdd(Dec(2373, -1), td_c)))),
        LAMBDA e :
    FMul(FDiv(e, es), Dec(1000, -1))))))

\* Lines calculate_relative_humidity_percent writes to standard output.
println_relative_humidity_percent == 1

svp_g ==
    << <<-28365744, 0, -5>>,
       <<-602807655, -9, -6>>,
       <<195426361, 2, -8>>,
       <<-273783018, -8, -11>>,
       <<16261698, 0, -13>>,
       <<70229056, 0, -18>>,
       <<-18680009, 0, -21>>,
       <<27150305, 0, -8>> >>

\* The loop over every index of g, "for i in 0..g.len()", from iteration i on.
RECURSIVE svp_loop_whole(_, _, _, _)
svp_loop_whole(g, t2_k, i, ess) ==
    IF i < Len(g)
    THEN svp_loop_whole(g, t2_k, i + 1, FAdd(ess, FMul(At(g, i), FPowi(t2_k, i - 2))))
    ELSE ess

\* The loop "for i in 0..g.len() - 1" from iteration i on.
RECURSIVE svp_loop(_, _, _, _)
svp_loop(g, t2_k, i, ess) ==
    IF i < Len(g) - 1
    THEN svp_loop(g, t2_k, i + 1, FAdd(ess, FMul(At(g, i), FPowi(t2_k, i - 2))))
    ELSE ess

calculate_saturation_vapour_pressure(t2_k) ==
    Let(svp_g, LAMBDA g :
    Let(FMul(At(g, 7), FLn(t2_k)), LAMBDA ess0 :
    Let(svp_loop(g, t2_k, 0, ess0), LAMBDA ess :
    FMul(FExp(ess), Dec(1, -2)))))

calculate_saturation_vapour_pressure_multiphase_by_temperature(t2_k, phase) ==
    Let(Dec(27316, -2), LAMBDA t0 :
    IF FGe(t2_k, t0)
    THEN Let(FDiv(FSub(t2_k, t0), FSub(t2_k, Dec(3219, -2))), LAMBDA y :
         FMul(Dec(61121, -4), FExp(FMul(Dec(17502, -3), y))))
    ELSE Let(FDiv(FSub(t2_k, t0), FAdd(t2_k, Dec(7, -1))), LAMBDA y :
         FMul(Dec(61121, -4), FExp(FMul(Dec(22587, -3), y)))))

calculate_saturation_vapour_pressure_multiphase(t2_k, phase) ==
    Let(Dec(27316, -2), LAMBDA t0 :
    IF phase = "Liquid"
    THEN Let(FDiv(FSub(t2_k, t0), FSub(t2_k, Dec(3219, -2))), LAMBDA y :
         FMul(Dec(61121, -4), FExp(FMul(Dec(17502, -3), y))))
    ELSE Let(FDiv(FSub(t2_k, t0), FAdd(t2_k, Dec(7, -1))), LAMBDA y :
         FMul(Dec(61121, -4), FExp(FMul(Dec(22587, -3), y)))))

calculate_nonsaturation_vapour_pressure(t2_k, rh) ==
    Let(kelvin_to_celsius(t2_k), LAMBDA t2_c :
    FMul(FMul(FDiv(rh, Dec(1000, -1)), Dec(6105, -3)),
         FExp(FDiv(FMul(Dec(1727, -2), t2_c), FAdd(Dec(2377, -1), t2_c)))))

\* scale_windspeed with 2 m as the reference height.
scale_windspeed_from_2m(va, h) ==
    Let(Dec(20, -1), LAMBDA target_height :
    Let(FDiv(Dec(10, -1), FLog10(FDiv(target_height, Dec(1, -2)))), LAMBDA c :
    FMul(FMul(va, FLog10(FDiv(h, Dec(1, -2)))), c)))

\* scale_windspeed with a guard that returns 0 for a non-positive height.
scale_windspeed_guarded(va, h) ==
    IF FLe(h, Zero) THEN Zero
    ELSE Let(FDiv(Dec(10, -1), FLog10(FDiv(Dec(100, -1), Dec(1, -2)))), LAMBDA c :
         FMul(FMul(va, FLog10(FDiv(h, Dec(1, -2)))), c))

scale_windspeed(va, h) ==
    Let(Dec(100, -1), LAMBDA target_height :
    Let(FDiv(Dec(10, -1), FLog10(FDiv(target_height, Dec(1, -2)))), LAMBDA c :
    Let(FMul(FMul(va, FLog10(FDiv(h, Dec(1, -2)))), c), LAMBDA vh :
    vh)))

\* approximate_dsrp with the guard "cossza < 0.1": the threshold itself is let
\* through.
approximate_dsrp_exclusive(fdir, cossza) ==
    IF FLt(cossza, Dec(1, -1)) THEN None ELSE Some(FDiv(fdir, cossza))

approximate_dsrp(fdir, cossza) ==
    IF FLe(cossza, Dec(1, -1)) THEN None ELSE Some(FDiv(fdir, cossza))

\* calculate_dew_point_from_relative_humidity with a guard: a relative
\* humidity below 0.001 percent is raised to 0.001 percent.
calculate_dew_point_from_relative_humidity_guarded(rh, t2_k) ==
    Let(kelvin_to_celsius(t2_k), LAMBDA t2_c :
    Let(FLn(FDiv(IF FLt(rh, Dec(1, -3)) THEN Dec(1, -3) ELSE rh, Dec(1000, -1))),
        LAMBDA lnrh :
    Let(FDiv(FMul(Dec(17625, -3), t2_c), FAdd(Dec(24304, -2), t2_c)), LAMBDA mag :
    Let(FDiv(FMul(Dec(24304, -2), FAdd(lnrh, mag)),
             FSub(FSub(Dec(17625, -3), lnrh), mag)),
        LAMBDA td_c :
    celsius_to_kelvin(td_c)))))

calculate_dew_point_from_relative_humidity(rh, t2_k) ==
    Let(kelvin_to_celsius(t2_k), LAMBDA t2_c :
    Let(FLn(FDiv(rh, Dec(1000, -1))), LAMBDA lnrh :
    Let(FDiv(FMul(Dec(17625, -3), t2_c), FAdd(Dec(24304, -2), t2_c)), LAMBDA mag :
    Let(FDiv(FMul(Dec(24304, -2), FAdd(lnrh, mag)),
             FSub(FSub(Dec(17625, -3), lnrh), mag)),
        LAMBDA td_c :
    celsius_to_kelvin(td_c)))))

calculate_mean_radiant_temperature(ssrd, ssr, dsrp, strd, fdir, strr, cossza) ==
    Let(FSub(ssrd, fdir), LAMBDA dsw :
    Let(FSub(ssrd, ssr), LAMBDA rsw :
    Let(FSub(strd, strr), LAMBDA lur :
    Let(FDiv(FMul(FAsin(cossza), Dec(1800, -1)), PI), LAMBDA gamma :
    Let(FMul(Dec(308, -3),
             FCos(FMul(FMul(FDiv(PI, Dec(1800, -1)), gamma),
                       FSub(Dec(998, -3),
                            FDiv(FMul(gamma, gamma), Dec(500000, -1)))))),
        LAMBDA fp :
    Let(FAdd(FAdd(FMul(Dec(5, -1), dsw), FMul(Dec(5, -1), rsw)), FMul(fp, dsrp)),
        LAMBDA sw :
    Let(FPowf(FMul(FDiv(Dec(10, -1), Dec(567, -10)),
                   FAdd(FAdd(FMul(Dec(5, -1), strd), FMul(Dec(5, -1), lur)),
                        FMul(FDiv(Dec(7, -1), Dec(97, -2)), sw))),
              Dec(25, -2)),
        LAMBDA mrt :
    mrt)))))))

\* The terms of the UTCI polynomial after the leading t2m, in the order of
\* the source: <<n, k, factors>> is the coefficient n * 10^k times the
\* factors, multiplied left to right.
utci_terms ==
    << <<607562052, -9, <<>>>>,
       <<-227712343, -10, <<"t2m">>>>,
       <<806470249, -12, <<"t2m2">>>>,
       <<-154271372, -12, <<"t2m3">>>>,
       <<-324651735, -14, <<"t2m4">>>>,
       <<732602852, -16, <<"t2m5">>>>,
       <<135959073, -17, <<"t2m6">>>>,
       <<-225836520, -8, <<"va">>>>,
       <<880326035, -10, <<"t2m", "va">>>>,
       <<216844454, -11, <<"t2m2", "va">>>>,
       <<-153347087, -13, <<"t2m3", "va">>>>,
       <<-572983704, -15, <<"t2m4", "va">>>>,
       <<-255090145, -17, <<"t2m5", "va">>>>,
       <<-751269505, -9, <<"va2">>>>,
       <<-408350271, -11, <<"t2m", "va2">>>>,
       <<-521670675, -13, <<"t2m2", "va2">>>>,
       <<194544667, -14, <<"t2m3", "va2">>>>,
       <<114099531, -16, <<"t2m4", "va2">>>>,
       <<158137256, -9, <<"va3">>>>,
       <<-657263143, -13, <<"t2m", "va3">>>>,
       <<222697524, -15, <<"t2m2", "va3">>>>,
       <<-416117031, -16, <<"t2m3", "va3">>>>,
       <<-127762753, -10, <<"va4">>>>,
       <<966891875, -14, <<"t2m", "va4">>>>,
       <<252785852, -17, <<"t2m2", "va4">>>>,
       <<456306672, -12, <<"va5">>>>,
       <<-174202546, -15, <<"t2m", "va5">>>>,
       <<-591491269, -14, <<"va6">>>>,
       <<398374029, -9, <<"e_mrt">>>>,
       <<183945314, -12, <<"t2m", "e_mrt">>>>,
       <<-173754510, -12, <<"t2m2", "e_mrt">>>>,
       <<-760781159, -15, <<"t2m3", "e_mrt">>>>,
       <<377830287, -16, <<"t2m4", "e_mrt">>>>,
       <<543079673, -18, <<"t2m5", "e_mrt">>>>,
       <<-200518269, -10, <<"va_e_mrt">>>>,
       <<892859837, -12, <<"t2m", "va_e_mrt">>>>,
       <<345433048, -14, <<"t2m2", "va_e_mrt">>>>,
       <<-377925774, -15, <<"t2m3", "va_e_mrt">>>>,
       <<-169699377, -17, <<"t2m4", "va_e_mrt">>>>,
       <<169992415, -12, <<"va2_e_mrt">>>>,
       <<-499204314, -13, <<"t2m", "va2_e_mrt">>>>,
       <<247417178, -15, <<"t2m2", "va2_e_mrt">>>>,
       <<107596466, -16, <<"t2m3", "va2_e_mrt">>>>,
       <<849242932, -13, <<"va3", "e_mrt">>>>,
       <<135191328, -14, <<"t2m", "va3", "e_mrt">>>>,
       <<-621531254, -17, <<"t2m2", "va3", "e_mrt">>>>,
       <<-499410301, -14, <<"va4", "e_mrt">>>>,
       <<-189489258, -16, <<"t2m", "va4", "e_mrt">>>>,
       <<815300114, -16, <<"va5", "e_mrt">>>>,
       <<755043090, -12, <<"e_mrt2">>>>,
       <<-565095215, -13, <<"t2m", "e_mrt2">>>>,
       <<-452166564, -15, <<"t2m2", "e_mrt2">>>>,
       <<246688878, -16, <<"t2m3", "e_mrt2">>>>,
       <<242674348, -18, <<"t2m4", "e_mrt2">>>>,
       <<154547250, -12, <<"va_e_mrt2">>>>,
       <<524110970, -14, <<"t2m", "va_e_mrt2">>>>,
       <<-875874982, -16, <<"t2m2", "va_e_mrt2">>>>,
       <<-150743064, -17, <<"t2m3", "va_e_mrt2">>>>,
       <<-156236307, -13, <<"va2", "e_mrt2">>>>,
       <<-133895614, -15, <<"t2m", "va2", "e_mrt2">>>>,
       <<249709824, -17, <<"t2m2", "va2", "e_mrt2">>>>,
       <<651711721, -15, <<"va3", "e_mrt2">>>>,
       <<194960053, -17, <<"t2m", "va3", "e_mrt2">>>>,
       <<-100361113, -16, <<"va4", "e_mrt2">>>>,
       <<-121206673, -13, <<"e_mrt3">>>>,
       <<-218203660, -15, <<"t2m", "e_mrt3">>>>,
       <<751269482, -17, <<"t2m2", "e_mrt3">>>>,
       <<979063848, -19, <<"t2m3", "e_mrt3">>>>,
       <<125006734, -14, <<"va", "e_mrt3">>>>,
       <<-181584736, -17, <<"t2m_va", "e_mrt3">>>>,
       <<-352197671, -18, <<"t2m2", "va", "e_mrt3">>>>,
       <<-336514630, -16, <<"va2", "e_mrt3">>>>,
       <<135908359, -18, <<"t2m", "va2", "e_mrt3">>>>,
       <<417032620, -18, <<"va3", "e_mrt3">>>>,
       <<-130369025, -17, <<"e_mrt4">>>>,
       <<413908461, -18, <<"t2m", "e_mrt4">>>>,
       <<922652254, -20, <<"t2m2", "e_mrt4">>>>,
       <<-508220384, -17, <<"va", "e_mrt4">>>>,
       <<-224730961, -19, <<"t2m_va", "e_mrt4">>>>,
       <<117139133, -18, <<"va2", "e_mrt4">>>>,
       <<662154879, -18, <<"e_mrt5">>>>,
       <<403863260, -21, <<"t2m", "e_mrt5">>>>,
       <<195087203, -20, <<"va", "e_mrt5">>>>,
       <<-473602469, -20, <<"e_mrt6">>>>,
       <<512733497, -8, <<"wvp">>>>,
       <<-312788561, -9, <<"t2m", "wvp">>>>,
       <<-196701861, -10, <<"t2m2", "wvp">>>>,
       <<999690870, -12, <<"t2m3", "wvp">>>>,
       <<951738512, -14, <<"t2m4", "wvp">>>>,
       <<-466426341, -15, <<"t2m5", "wvp">>>>,
       <<548050612, -9, <<"va_rh">>>>,
       <<-330552823, -11, <<"t2m", "va_rh">>>>,
       <<-164119440, -11, <<"t2m2", "va_rh">>>>,
       <<-516670694, -14, <<"t2m3", "va_rh">>>>,
       <<952692432, -15, <<"t2m4", "va_rh">>>>,
       <<-429223622, -10, <<"va2_rh">>>>,
       <<500845667, -11, <<"t2m", "va2_rh">>>>,
       <<100601257, -14, <<"t2m2", "va2_rh">>>>,
       <<-181748644, -14, <<"t2m3", "va2_rh">>>>,
       <<-125813502, -11, <<"va3", "wvp">>>>,
       <<-179330391, -12, <<"t2m", "va3", "wvp">>>>,
       <<234994441, -14, <<"t2m2", "va3", "wvp">>>>,
       <<129735808, -12, <<"va4", "wvp">>>>,
       <<129064870, -14, <<"t2m", "va4", "wvp">>>>,
       <<-228558686, -14, <<"va5", "wvp">>>>,
       <<-369476348, -10, <<"e_mrt_rh">>>>,
       <<162325322, -11, <<"t2m", "e_mrt_rh">>>>,
       <<-314279680, -13, <<"t2m2", "e_mrt_rh">>>>,
       <<259835559, -14, <<"t2m3", "e_mrt_rh">>>>,
       <<-477136523, -16, <<"t2m4", "e_mrt_rh">>>>,
       <<864203390, -11, <<"va", "e_mrt_rh">>>>,
       <<-687405181, -12, <<"t2m_va", "e_mrt_rh">>>>,
       <<-913863872, -14, <<"t2m2", "va", "e_mrt_rh">>>>,
       <<515916806, -15, <<"t2m3", "va", "e_mrt_rh">>>>,
       <<-359217476, -13, <<"va2", "e_mrt_rh">>>>,
       <<328696511, -13, <<"t2m", "va2", "e_mrt_rh">>>>,
       <<-710542454, -15, <<"t2m2", "va2", "e_mrt_rh">>>>,
       <<-124382300, -13, <<"va3", "e_mrt_rh">>>>,
       <<-738584400, -17, <<"t2m", "va3", "e_mrt_rh">>>>,
       <<220609296, -15, <<"va4", "e_mrt_rh">>>>,
       <<-732469180, -12, <<"e_mrt2_rh">>>>,
       <<-187381964, -13, <<"t2m", "e_mrt2_rh">>>>,
       <<480925239, -14, <<"t2m2", "e_mrt2_rh">>>>,
       <<-875492040, -16, <<"t2m3", "e_mrt2_rh">>>>,
       <<277862930, -13, <<"va", "e_mrt2_rh">>>>,
       <<-506004592, -14, <<"t2m_va", "e_mrt2_rh">>>>,
       <<114325367, -15, <<"t2m2", "va", "e_mrt2_rh">>>>,
       <<253016723, -14, <<"va2", "e_mrt2_rh">>>>,
       <<-172857035, -16, <<"t2m", "va2", "e_mrt2_rh">>>>,
       <<-395079398, -16, <<"va3", "e_mrt2_rh">>>>,
       <<-359413173, -15, <<"e_mrt3_rh">>>>,
       <<704388046, -15, <<"t2m", "e_mrt3_rh">>>>,
       <<-189309167, -16, <<"t2m2", "e_mrt3_rh">>>>,
       <<-479768731, -15, <<"va", "e_mrt3_rh">>>>,
       <<796079978, -17, <<"t2m_va", "e_mrt3_rh">>>>,
       <<162897058, -17, <<"va2", "e_mrt3_rh">>>>,
       <<394367674, -16, <<"e_mrt4_rh">>>>,
       <<-118566247, -17, <<"t2m", "e_mrt4_rh">>>>,
       <<334678041, -18, <<"va", "e_mrt4_rh">>>>,
       <<-115606447, -18, <<"e_mrt5", "wvp">>>>,
       <<-280626406, -8, <<"wvp2">>>>,
       <<548712484, -9, <<"t2m", "wvp2">>>>,
       <<-399428410, -11, <<"t2m2", "wvp2">>>>,
       <<-954009191, -12, <<"t2m3", "wvp2">>>>,
       <<193090978, -13, <<"t2m4", "wvp2">>>>,
       <<-308806365, -9, <<"varh2">>>>,
       <<116952364, -10, <<"t2m", "varh2">>>>,
       <<495271903, -12, <<"t2m2", "varh2">>>>,
       <<-190710882, -13, <<"t2m3", "varh2">>>>,
       <<210787756, -11, <<"va2", "wvp2">>>>,
       <<-698445738, -12, <<"t2m", "va2", "wvp2">>>>,
       <<230109073, -13, <<"t2m2", "va2", "wvp2">>>>,
       <<417856590, -12, <<"va3", "wvp2">>>>,
       <<-127043871, -13, <<"t2m", "va3", "wvp2">>>>,
       <<-304620472, -14, <<"va4", "wvp2">>>>,
       <<514507424, -10, <<"e_mrt_rh2">>>>,
       <<-432510997, -11, <<"t2m", "e_mrt_rh2">>>>,
       <<899281156, -13, <<"t2m2", "e_mrt_rh2">>>>,
       <<-714663943, -15, <<"t2m3", "e_mrt_rh2">>>>,
       <<-266016305, -12, <<"va", "e_mrt_rh2">>>>,
       <<263789586, -12, <<"t2m_va", "e_mrt_rh2">>>>,
       <<-701199003, -14, <<"t2m2", "va", "e_mrt_rh2">>>>,
       <<-106823306, -12, <<"va2", "e_mrt_rh2">>>>,
       <<361341136, -14, <<"t2m", "va2", "e_mrt_rh2">>>>,
       <<229748967, -15, <<"va3", "e_mrt_rh2">>>>,
       <<304788893, -12, <<"e_mrt2_rh2">>>>,
       <<-642070836, -13, <<"t2m", "e_mrt2_rh2">>>>,
       <<116257971, -14, <<"t2m2", "e_mrt2_rh2">>>>,
       <<768023384, -14, <<"va", "e_mrt2_rh2">>>>,
       <<-547446896, -15, <<"t2m_va", "e_mrt2_rh2">>>>,
       <<-359937910, -16, <<"va2", "e_mrt2_rh2">>>>,
       <<-436497725, -14, <<"e_mrt3", "wvp2">>>>,
       <<168737969, -15, <<"t2m", "e_mrt3", "wvp2">>>>,
       <<267489271, -16, <<"va", "e_mrt3", "wvp2">>>>,
       <<323926897, -17, <<"e_mrt4", "wvp2">>>>,
       <<-353874123, -10, <<"wvp3">>>>,
       <<-221201190, -9, <<"t2m", "wvp3">>>>,
       <<155126038, -10, <<"t2m2", "wvp3">>>>,
       <<-263917279, -12, <<"t2m3", "wvp3">>>>,
       <<453433455, -10, <<"va", "wvp3">>>>,
       <<-432943862, -11, <<"t2m_va", "wvp3">>>>,
       <<145389826, -12, <<"t2m2", "va", "wvp3">>>>,
       <<217508610, -12, <<"va2", "wvp3">>>>,
       <<-666724702, -13, <<"t2m", "va2", "wvp3">>>>,
       <<333217140, -13, <<"va3", "wvp3">>>>,
       <<-226921615, -11, <<"e_mrt_rh3">>>>,
       <<380261982, -12, <<"t2m", "e_mrt_rh3">>>>,
       <<-545314314, -17, <<"t2m2", "e_mrt_rh3">>>>,
       <<-796355448, -12, <<"va", "e_mrt_rh3">>>>,
       <<253458034, -13, <<"t2m_va", "e_mrt_rh3">>>>,
       <<-631223658, -14, <<"va2", "e_mrt_rh3">>>>,
       <<302122035, -12, <<"e_mrt2", "wvp3">>>>,
       <<-477403547, -14, <<"t2m", "e_mrt2", "wvp3">>>>,
       <<173825715, -14, <<"va", "e_mrt2", "wvp3">>>>,
       <<-409087898, -15, <<"e_mrt3", "wvp3">>>>,
       <<614155345, -9, <<"wvp4">>>>,
       <<-616755931, -10, <<"t2m", "wvp4">>>>,
       <<133374846, -11, <<"t2m2", "wvp4">>>>,
       <<355375387, -11, <<"va", "wvp4">>>>,
       <<-513027851, -12, <<"t2m_va", "wvp4">>>>,
       <<102449757, -12, <<"va2", "wvp4">>>>,
       <<-148526421, -11, <<"e_mrt", "wvp4">>>>,
       <<-411469183, -13, <<"t2m", "e_mrt", "wvp4">>>>,
       <<-680434415, -14, <<"va", "e_mrt", "wvp4">>>>,
       <<-977675906, -14, <<"e_mrt2", "wvp4">>>>,
       <<882773108, -10, <<"wvp5">>>>,
       <<-301859306, -11, <<"t2m", "wvp5">>>>,
       <<104452989, -11, <<"va", "wvp5">>>>,
       <<247090539, -12, <<"e_mrt", "wvp5">>>>,
       <<148348065, -11, <<"wvp6">>>> >>

RECURSIVE utci_product(_, _, _, _)
utci_product(v, fs, j, acc) ==
    IF j > Len(fs) THEN acc ELSE utci_product(v, fs, j + 1, FMul(acc, v[fs[j]]))

\* acc + terms[i] + ... + terms[i + n - 1], summed left to right.
RECURSIVE utci_chunk(_, _, _, _, _)
utci_chunk(v, terms, i, n, acc) ==
    IF n = 0 \/ i > Len(terms) THEN acc
    ELSE utci_chunk(v, terms, i + 1, n - 1,
                    FAdd(acc, utci_product(v, terms[i][3], 1,
                                           Dec(terms[i][1], terms[i][2]))))

\* acc + terms[i] + ... + terms[Len(terms)], summed left to right, fifteen
\* terms at a time (a NaN sum stays NaN whatever is added to it).
RECURSIVE utci_sum(_, _, _, _)
utci_sum(v, terms, i, acc) ==
    IF i > Len(terms) \/ acc.c = "nan" THEN acc
    ELSE utci_sum(v, terms, i + 15, utci_chunk(v, terms, i, 15, acc))

\* "let x2 = x * x; let x3 = x2 * x; ..." up to x6: <<x, x2, x3, x4, x5, x6>>.
utci_powers(x) ==
    Let(FMul(x, x), LAMBDA x2 :
    Let(FMul(x2, x), LAMBDA x3 :
    Let(FMul(x3, x), LAMBDA x4 :
    Let(FMul(x4, x), LAMBDA x5 :
    Let(FMul(x5, x), LAMBDA x6 :
    <<x, x2, x3, x4, x5, x6>>)))))

calculate_utci_polynomial(t2m, mrt, va, wvp) ==
    Let(FSub(mrt, t2m), LAMBDA e_mrt :
    Let(utci_powers(t2m), LAMBDA t :
    Let(utci_powers(va), LAMBDA a :
    Let(utci_powers(e_mrt), LAMBDA m :
    Let(utci_powers(wvp), LAMBDA w :
    Let([t2m |-> t[1], t2m2 |-> t[2], t2m3 |-> t[3], t2m4 |-> t[4],
         t2m5 |-> t[5], t2m6 |-> t[6],
         va |-> a[1], va2 |-> a[2], va3 |-> a[3], va4 |-> a[4], va5 |-> a[5],
         va6 |-> a[6],
         e_mrt |-> m[1], e_mrt2 |-> m[2], e_mrt3 |-> m[3],
         e_mrt4 |-> m[4], e_mrt5 |-> m[5], e_mrt6 |-> m[6],
         wvp |-> w[1], wvp2 |-> w[2], wvp3 |-> w[3], wvp4 |-> w[4],
         wvp5 |-> w[5], wvp6 |-> w[6],
         varh2 |-> FMul(a[1], w[2]),
         va2_rh |-> FMul(a[2], w[1]),
         va2_e_mrt |-> FMul(a[2], m[1]),
         e_mrt_rh |-> FMul(m[1], w[1]),
         e_mrt_rh2 |-> FMul(m[1], w[2]),
         e_mrt2_rh |-> FMul(m[2], w[1]),
         e_mrt2_rh2 |-> FMul(m[2], w[2]),
         e_mrt_rh3 |-> FMul(m[1], w[3]),
         va_e_mrt |-> FMul(a[1], m[1]),
         va_e_mrt2 |-> FMul(a[1], m[2]),
         va_rh |-> FMul(a[1], w[1]),
         t2m_va |-> FMul(t[1], a[1]),
         e_mrt3_rh |-> FMul(m[3], w[1]),
         e_mrt4_rh |-> FMul(m[4], w[1])],
        LAMBDA v :
    Let(utci_terms, LAMBDA terms :
    utci_sum(v, terms, 1, t2m))))))))

\* utci_wvp with a default in place of the panic: with both inputs absent the
\* vapour pressure is taken as zero.
utci_wvp_defaulting(t2_k, td_k, eh_pa) ==
    IF eh_pa.tag = "Some"
    THEN Num(FDiv(eh_pa.v, Dec(100, -1)))
    ELSE IF td_k.tag = "Some"
         THEN Num(FDiv(FDiv(FMul(calculate_saturation_vapour_pressure(t2_k),
                                 calculate_relative_humidity_percent(t2_k, td_k.v)),
                            Dec(1000, -1)),
                       Dec(100, -1)))
         ELSE Num(Zero)

\* utci_wvp with the two inputs tested in the other order: the dew point,
\* when supplied, takes priority over the vapour pressure.
utci_wvp_dew_point_first(t2_k, td_k, eh_pa) ==
    IF td_k.tag = "Some"
    THEN Num(FDiv(FDiv(FMul(calculate_saturation_vapour_pressure(t2_k),
                            calculate_relative_humidity_percent(t2_k, td_k.v)),
                       Dec(1000, -1)),
                  Dec(100, -1)))
    ELSE IF eh_pa.tag = "Some"
         THEN Num(FDiv(eh_pa.v, Dec(100, -1)))
         ELSE Panic("Missing input ehPa or td_k")

\* utci_wvp without the saturation vapour pressure: the relative humidity
\* alone is scaled to a vapour pressure.
utci_wvp_unsaturated(t2_k, td_k, eh_pa) ==
    IF eh_pa.tag = "Some"
    THEN Num(FDiv(eh_pa.v, Dec(100, -1)))
    ELSE IF td_k.tag = "Some"
         THEN Num(FDiv(FDiv(calculate_relative_humidity_percent(t2_k, td_k.v),
                            Dec(1000, -1)),
                       Dec(100, -1)))
         ELSE Panic("Missing input ehPa or td_k")

\* The water vapour pressure in kPa that calculate_utci resolves from its two
\* optional inputs, or the panic when both are absent.
utci_wvp(t2_k, td_k, eh_pa) ==
    IF eh_pa.tag = "Some"
    THEN Num(FDiv(eh_pa.v, Dec(100, -1)))
    ELSE IF td_k.tag = "Some"
         THEN Let(calculate_relative_humidity_percent(t2_k, td_k.v), LAMBDA rh_pc :
              Let(FDiv(FMul(calculate_saturation_vapour_pressure(t2_k), rh_pc),
                       Dec(1000, -1)),
                  LAMBDA eh :
              Num(FDiv(eh, Dec(100, -1)))))
         ELSE Panic("Missing input ehPa or td_k")

calculate_utci(t2_k, va, mrt, td_k, eh_pa) ==
    Let(utci_wvp(t2_k, td_k, eh_pa), LAMBDA wvp :
    IF wvp.tag = "Panic" THEN wvp
    ELSE Let(kelvin_to_celsius(t2_k), LAMBDA t2_c :
         Let(kelvin_to_celsius(mrt), LAMBDA mrt_c :
         Let(calculate_utci_polynomial(t2_c, mrt_c, va, wvp.v), LAMBDA utci :
         Let(celsius_to_kelvin(utci), LAMBDA utci_k :
         Num(utci_k))))))

calculate_wbgt_simple(t2_k, rh) ==
    Let(kelvin_to_celsius(t2_k), LAMBDA t2_c :
    Let(calculate_nonsaturation_vapour_pressure(t2_k, rh), LAMBDA e :
    Let(FAdd(FAdd(FMul(Dec(567, -3), t2_c), FMul(Dec(393, -3), e)), Dec(394, -2)),
        LAMBDA wbgt :
    celsius_to_kelvin(wbgt))))

calculate_wbt(t2_k, rh) ==
    Let(kelvin_to_celsius(t2_k), LAMBDA t2_c :
    Let(FSub(FAdd(FSub(FAdd(
            FMul(t2_c, FAtan(FMul(Dec(151977, -6), FSqrt(FAdd(rh, Dec(8313659, -6)))))),
            FAtan(FAdd(t2_c, rh))),
            FAtan(FSub(rh, Dec(1676331, -6)))),
            FMul(FMul(Dec(391838, -8), FPowf(rh, FDiv(Dec(30, -1), Dec(20, -1)))),
                 FAtan(FMul(Dec(23101, -6), rh)))),
            Dec(4686035, -6)),
        LAMBDA tw :
    celsius_to_kelvin(tw)))

calculate_bgt(t2_k, mrt, va) ==
    Let(scale_windspeed(va, Dec(11, -1)), LAMBDA v :
    Let(FDiv(FMul(Dec(11, 7), FPowf(v, Dec(6, -1))),
             FMul(Dec(95, -2), FPowf(Dec(15, -2), Dec(4, -1)))),
        LAMBDA d :
    Let(FSub(FNeg(FPowi(mrt, 4)), FMul(d, t2_k)), LAMBDA e :
    Let(FMul(Dec(120, -1), e), LAMBDA q :
    Let(FMul(Dec(270, -1), FPowi(d, 2)), LAMBDA s :
    Let(FPowf(FDiv(FAdd(s, FSqrt(FSub(FPowi(s, 2), FMul(Dec(40, -1), FPowi(q, 3))))),
                   Dec(20, -1)),
              FDiv(Dec(10, -1), Dec(30, -1))),
        LAMBDA delta :
    Let(FMul(Dec(5, -1),
             FSqrt(FMul(FDiv(Dec(10, -1), Dec(30, -1)), FAdd(delta, FDiv(q, delta))))),
        LAMBDA q2 :
    Let(FAdd(FNeg(q2),
             FMul(Dec(5, -1),
                  FSqrt(FAdd(FMul(Dec(-40, -1), FPowi(q2, 2)), FDiv(d, q2))))),
        LAMBDA bgt :
    bgt))))))))

calculate_wbgt_overweight(t2_k, mrt, va, td_k) ==
    Let(calculate_bgt(t2_k, mrt, va), LAMBDA bgt_k :
    Let(kelvin_to_celsius(bgt_k), LAMBDA bgt_c :
    Let(calculate_relative_humidity_percent(t2_k, td_k), LAMBDA rh :
    Let(kelvin_to_celsius(t2_k), LAMBDA t2_c :
    Let(calculate_wbt(t2_k, rh), LAMBDA tw_k :
    Let(kelvin_to_celsius(tw_k), LAMBDA tw_c :
    Let(FAdd(FAdd(FMul(Dec(7, -1), tw_c), FMul(Dec(3, -1), bgt_c)),
             FMul(Dec(1, -1), t2_c)),
        LAMBDA wbgt :
    celsius_to_kelvin(wbgt))))))))

calculate_wbgt(t2_k, mrt, va, td_k) ==
    Let(calculate_bgt(t2_k, mrt, va), LAMBDA bgt_k :
    Let(kelvin_to_celsius(bgt_k), LAMBDA bgt_c :
    Let(calculate_relative_humidity_percent(t2_k, td_k), LAMBDA rh :
    Let(kelvin_to_celsius(t2_k), LAMBDA t2_c :
    Let(calculate_wbt(t2_k, rh), LAMBDA tw_k :
    Let(kelvin_to_celsius(tw_k), LAMBDA tw_c :
    Let(FAdd(FAdd(FMul(Dec(7, -1), tw_c), FMul(Dec(2, -1), bgt_c)),
             FMul(Dec(1, -1), t2_c)),
        LAMBDA wbgt :
    celsius_to_kelvin(wbgt))))))))

\* calculate_mrt_from_bgt with the temperature difference reversed.
calculate_mrt_from_bgt_reversed(t2_k, bgt_k, va) ==
    Let(scale_windspeed(va, Dec(11, -1)), LAMBDA v :
    Let(FDiv(FMul(Dec(11, 7), FPowf(v, Dec(6, -1))),
             FMul(Dec(95, -2), FPowf(Dec(15, -2), Dec(4, -1)))),
        LAMBDA f :
    FSqrt(FSqrt(FAdd(FPowi(bgt_k, 4), FMul(f, FSub(t2_k, bgt_k)))))))

calculate_mrt_from_bgt(t2_k, bgt_k, va) ==
    Let(scale_windspeed(va, Dec(11, -1)), LAMBDA v :
    Let(FDiv(FMul(Dec(11, 7), FPowf(v, Dec(6, -1))),
             FMul(Dec(95, -2), FPowf(Dec(15, -2), Dec(4, -1)))),
        LAMBDA f :
    Let(FPowi(bgt_k, 4), LAMBDA bgt4 :
    Let(FAdd(bgt4, FMul(f, FSub(bgt_k, t2_k))), LAMBDA mrtc :
    Let(FSqrt(FSqrt(mrtc)), LAMBDA mrtc2 :
    mrtc2)))))

calculate_humidex(t2_k, td_k) ==
    Let(FMul(Dec(611, -2),
             FExp(FMul(Dec(54177530, -4),
                       FSub(FDiv(Dec(10, -1), Dec(27316, -2)),
                            FDiv(Dec(10, -1), td_k))))),
        LAMBDA vp :
    Let(FMul(Dec(5555, -4), FSub(vp, Dec(100, -1))), LAMBDA h :
    FAdd(t2_k, h)))

calculate_normal_effective_temperature(t2_k, va, rh) ==
    Let(kelvin_to_celsius(t2_k), LAMBDA t2_c :
    Let(scale_windspeed(va, Dec(12, -1)), LAMBDA v :
    Let(FDiv(Dec(10, -1),
             FAdd(Dec(176, -2), FMul(Dec(14, -1), FPowf(v, Dec(75, -2))))),
        LAMBDA ditermeq :
    Let(FSub(FSub(Dec(370, -1),
                  FDiv(FSub(Dec(370, -1), t2_c),
                       FAdd(FSub(Dec(68, -2), FMul(Dec(14, -4), rh)), ditermeq))),
             FMul(FMul(Dec(29, -2), t2_c),
                  FSub(Dec(10, -1), FMul(Dec(1, -2), rh)))),
        LAMBDA net :
    celsius_to_kelvin(net)))))

calculate_apparent_temperature(t2_k, va, rh) ==
    Let(kelvin_to_celsius(t2_k), LAMBDA t2_c :
    Let(calculate_nonsaturation_vapour_pressure(t2_k, rh), LAMBDA e :
    Let(FSub(FSub(FAdd(t2_c, FMul(Dec(33, -2), e)), FMul(Dec(7, -1), va)),
             Dec(40, -1)),
        LAMBDA at :
    celsius_to_kelvin(at))))

\* Lines calculate_apparent_temperature writes to standard output.
println_apparent_temperature == 1

calculate_wind_chill(t2_k, va) ==
    Let(kelvin_to_celsius(t2_k), LAMBDA t2_c :
    Let(FMul(va, Dec(36, -1)), LAMBDA v :
    Let(FAdd(FSub(FAdd(Dec(1312, -2), FMul(Dec(6215, -4), t2_c)),
                  FMul(Dec(1137, -2), FPowf(v, Dec(16, -2)))),
             FMul(FMul(Dec(3965, -4), t2_c), FPowf(v, Dec(16, -2)))),
        LAMBDA windchill :
    celsius_to_kelvin(windchill))))

his_array ==
    << <<8784695, -6>>, <<161139411, -8>>, <<2338549, -6>>, <<14611605, -8>>,
       <<12308094, -9>>, <<16424828, -9>>, <<2211732, -9>>, <<72546, -8>>,
       <<3582, -9>> >>

\* The nine-coefficient regression both heat indices evaluate, in t and rh.
hi_regression(hiarray, t, rh) ==
    FSub(FAdd(FAdd(FSub(FSub(FSub(FAdd(FAdd(FNeg(At(hiarray, 0)),
                                            FMul(At(hiarray, 1), t)),
                                       FMul(At(hiarray, 2), rh)),
                                  FMul(FMul(At(hiarray, 3), t), rh)),
                             FMul(At(hiarray, 4), FPowi(t, 2))),
                        FMul(At(hiarray, 5), FPowi(rh, 2))),
                   FMul(FMul(At(hiarray, 6), FPowi(t, 2)), rh)),
              FMul(FMul(At(hiarray, 7), t), FPowi(rh, 2))),
         FMul(FMul(At(hiarray, 8), FPowi(t, 2)), FPowi(rh, 2)))

\* calculate_heat_index_simplified with the guard "t2_c < 20.0": 20 degrees
\* Celsius itself is let through.
calculate_heat_index_simplified_exclusive(t2_k, rh) ==
    IF FLt(kelvin_to_celsius(t2_k), Dec(200, -1)) THEN None
    ELSE Some(celsius_to_kelvin(hi_regression(his_array, kelvin_to_celsius(t2_k), rh)))

calculate_heat_index_simplified(t2_k, rh) ==
    Let(kelvin_to_celsius(t2_k), LAMBDA t2_c :
    IF FLe(t2_c, Dec(200, -1)) THEN None
    ELSE Let(his_array, LAMBDA hiarray :
         Let(hi_regression(hiarray, t2_c, rh), LAMBDA hi :
         Let(celsius_to_kelvin(hi), LAMBDA hi_k :
         Some(hi_k)))))

hia_array ==
    << <<42379, -3>>, <<204901523, -8>>, <<101433312, -7>>, <<22475541, -8>>,
       <<683783, -8>>, <<5481717, -8>>, <<122874, -8>>, <<85282, -8>>,
       <<199, -8>> >>

\* 0.5 * (t2_f + 61.0 + ((t2_f - 68.0) * 1.2) + (rh * 0.094))
hi_simple_estimate(t2_f, rh) ==
    FMul(Dec(5, -1),
         FAdd(FAdd(FAdd(t2_f, Dec(610, -1)), FMul(FSub(t2_f, Dec(680, -1)), Dec(12, -1))),
              FMul(rh, Dec(94, -3))))

\* hia_branch with the fourth test made on the average of the regression
\* value and t2_f: (hi + t2_f) / 2 < 80.
hia_branch_regression_average(t2_f, rh, hi_initial) ==
    IF FGt(t2_f, Dec(800, -1)) /\ FLt(t2_f, Dec(1120, -1)) /\ FLe(rh, Dec(130, -1)) THEN 1
    ELSE IF FGt(t2_f, Dec(800, -1)) /\ FLt(t2_f, Dec(870, -1)) /\ FGt(rh, Dec(850, -1))
         THEN 2
    ELSE IF FLt(t2_f, Dec(800, -1)) THEN 3
    ELSE IF FLt(FDiv(FAdd(hi_regression(hia_array, t2_f, rh), t2_f), Dec(20, -1)),
                Dec(800, -1)) THEN 4
    ELSE 0

\* The branch of calculate_heat_index_adjusted's if / else-if chain that is
\* taken: 1 .. 4 in the order of the source, 0 for the final else.
hia_branch(t2_f, rh, hi_initial) ==
    IF FGt(t2_f, Dec(800, -1)) /\ FLt(t2_f, Dec(1120, -1)) /\ FLe(rh, Dec(130, -1)) THEN 1
    ELSE IF FGt(t2_f, Dec(800, -1)) /\ FLt(t2_f, Dec(870, -1)) /\ FGt(rh, Dec(850, -1))
         THEN 2
    ELSE IF FLt(t2_f, Dec(800, -1)) THEN 3
    ELSE IF FLt(FAdd(hi_initial, FDiv(t2_f, Dec(20, -1))), Dec(800, -1)) THEN 4
    ELSE 0

\* hia_value without the replacement of the third branch: below 80 degrees
\* Fahrenheit the regression value is kept.
hia_value_keeps_regression(b, t2_f, rh, hi) ==
    IF b = 1
    THEN FSub(hi, FMul(FDiv(FSub(Dec(130, -1), rh), Dec(40, -1)),
                       FSqrt(FSub(Dec(170, -1),
                                  FDiv(FAbs(FSub(t2_f, Dec(950, -1))), Dec(170, -1))))))
    ELSE IF b = 2
    THEN FAdd(hi, FMul(FDiv(FSub(rh, Dec(850, -1)), Dec(100, -1)),
                       FDiv(FSub(Dec(870, -1), t2_f), Dec(50, -1))))
    ELSE IF b = 3 THEN hi
    ELSE hi_simple_estimate(t2_f, rh)

\* The value of hi after the chain, for the branch taken (1 .. 4).
hia_value(b, t2_f, rh, hi) ==
    IF b = 1
    THEN Let(FMul(FDiv(FSub(Dec(130, -1), rh), Dec(40, -1)),
                  FSqrt(FSub(Dec(170, -1),
                             FDiv(FAbs(FSub(t2_f, Dec(950, -1))), Dec(170, -1))))),
             LAMBDA adj :
         FSub(hi, adj))
    ELSE IF b = 2
    THEN Let(FMul(FDiv(FSub(rh, Dec(850, -1)), Dec(100, -1)),
                  FDiv(FSub(Dec(870, -1), t2_f), Dec(50, -1))),
             LAMBDA adj :
         FAdd(hi, adj))
    ELSE hi_simple_estimate(t2_f, rh)

\* calculate_heat_index_adjusted from the relative humidity it derives on.
heat_index_adjusted_rh(t2_k, rh) ==
    Let(hia_array, LAMBDA hiarray :
    Let(kelvin_to_fahrenheit(t2_k), LAMBDA t2_f :
    Let(hi_simple_estimate(t2_f, rh), LAMBDA hi_initial :
    Let(hi_regression(hiarray, t2_f, rh), LAMBDA hi :
    Let(hia_branch(t2_f, rh, hi_initial), LAMBDA b :
    IF b = 0 THEN None
    ELSE Let(hia_value(b, t2_f, rh, hi), LAMBDA hi_adj :
         Let(fahrenheit_to_kelvin(hi_adj), LAMBDA hi_k :
         Some(hi_k))))))))

calculate_heat_index_adjusted(t2_k, td_k) ==
    heat_index_adjusted_rh(t2_k, calculate_relative_humidity_percent(t2_k, td_k))

(***************************************************************************)
(* The caller.  It places one call at a time (Invoke), the function runs   *)
(* to its result (Return) and the caller takes the result and goes on      *)
(* (Resume).  A panic unwinds the caller: nothing runs after it.           *)
(*   pc      where the caller is: "idle", "called", "returned", "panicked" *)
(*   call    the call in progress or just finished: [fn, args]             *)
(*   ret     what the call produced: Num(x), Some(x), None or Panic(msg)   *)
(*   stdout  the number of lines written to standard output so far         *)
(***************************************************************************)
VARIABLES pc, call, ret, stdout

vars == <<pc, call, ret, stdout>>

\* The caller stops once this many lines are on standard output.
MaxStdout == 2

\* Steps of the temperature grids.
NT == 2

\* Steps of the air temperature grid of the adjusted heat index.
NHia == 6

\* Steps of the grids of the direct solar radiation approximation.
NRad == 7

NoCall == [fn |-> "", args |-> <<>>]
NoRet == [tag |-> "", v |-> Zero, msg |-> ""]

Init ==
    /\ pc = "idle"
    /\ call = NoCall
    /\ ret = NoRet
    /\ stdout = 0

Invoke(fn, argset) ==
    /\ pc = "idle"
    /\ stdout < MaxStdout
    /\ \E a \in argset : call' = [fn |-> fn, args |-> a]
    /\ pc' = "called"
    /\ UNCHANGED <<ret, stdout>>

Return(fn, r, lines) ==
    /\ pc = "called"
    /\ call.fn = fn
    /\ ret' = r
    /\ stdout' = stdout + lines
    /\ pc' = IF r.tag = "Panic" THEN "panicked" ELSE "returned"
    /\ UNCHANGED call

Resume ==
    /\ pc = "returned"
    /\ pc' = "idle"
    /\ call' = NoCall
    /\ ret' = NoRet
    /\ UNCHANGED stdout

\* base, base + step, ..., base + n * step
Grid(base, step, n) == {FAdd(base, FMul(FromInt(i), step)) : i \in 0..n}

\* The float next above a finite positive x.
NextUp(x) == IF x.m + 1 = TwoP THEN Fin(HalfP, x.e + 1) ELSE Fin(x.m + 1, x.e)

(***************************************************************************)
(* The calls the caller makes, function by function.                       *)
(***************************************************************************)
\* The dew points calculate_utci is called with.
UtciDewPoints == {None, Some(Dec(280, 0)), Some(Dec(288, 0))}

UtciArgs ==
    {<<t2_k, va, mrt, td_k, eh_pa>> :
        t2_k \in Grid(Dec(290, 0), Dec(10, 0), NT),
        va \in {Dec(5, -1), Dec(4, 0)},
        mrt \in {Dec(320, 0)},
        td_k \in UtciDewPoints,
        eh_pa \in {None, Some(Dec(120, -1)), Some(Dec(165, -1))}}

\* Lines calculate_utci writes: those of calculate_relative_humidity_percent,
\* which it calls only when it derives the vapour pressure from the dew point.
utci_println(td_k, eh_pa) ==
    IF eh_pa.tag = "None" /\ td_k.tag = "Some"
    THEN println_relative_humidity_percent ELSE 0

Call_calculate_utci ==
    \/ Invoke("calculate_utci", UtciArgs)
    \/ LET a == call.args
       IN  Return("calculate_utci", calculate_utci(a[1], a[2], a[3], a[4], a[5]),
                  utci_println(a[4], a[5]))

DsrpArgs ==
    {<<fdir, cossza>> :
        fdir \in Grid(Dec(0, 0), Dec(520, -1), NRad),
        cossza \in Grid(Dec(-2, -1), Dec(1, -1), NRad)
                   \cup {Dec(0, 0), Dec(1, -1), NextUp(Dec(1, -1)), Dec(4, -1)}}

Call_approximate_dsrp ==
    \/ Invoke("approximate_dsrp", DsrpArgs)
    \/ LET a == call.args
       IN  Return("approximate_dsrp", approximate_dsrp(a[1], a[2]), 0)

HisArgs ==
    {<<t2_k, rh>> :
        t2_k \in {celsius_to_kelvin(tc) : tc \in Grid(Dec(190, -1), Dec(5, -1), NT + 2)}
                 \cup {NextUp(celsius_to_kelvin(Dec(200, -1)))},
        rh \in {Dec(0, 0), Dec(400, -1), Dec(800, -1), Dec(1000, -1)}}

Call_calculate_heat_index_simplified ==
    \/ Invoke("calculate_heat_index_simplified", HisArgs)
    \/ LET a == call.args
       IN  Return("calculate_heat_index_simplified",
                  calculate_heat_index_simplified(a[1], a[2]), 0)

\* A grid of air temperatures, the two temperatures next to 80 degrees
\* Fahrenheit (299.8125 K and 299.84375 K) and one above 112 degrees
\* Fahrenheit (320 K), each with a small, a medium and a large dew point
\* depression.
HiaArgs ==
    {<<t2_k, FSub(t2_k, dep)>> :
        t2_k \in Grid(Dec(292, 0), Dec(4, 0), NHia)
                     \cup {Dec(2998125, -4), Dec(29984375, -5), Dec(320, 0)},
        dep \in {Dec(1, 0), Dec(25, 0), Dec(35, 0)}}

Call_calculate_heat_index_adjusted ==
    \/ Invoke("calculate_heat_index_adjusted", HiaArgs)
    \/ LET a == call.args
       IN  Return("calculate_heat_index_adjusted",
                  calculate_heat_index_adjusted(a[1], a[2]),
                  println_relative_humidity_percent)

\* f64::MAX
MaxFinite == Fin(TwoP - 1, MaxExp - Prec)

\* Temperatures the conversions are called with: ordinary ones, zero, a tiny
\* one, and large ones up to the largest finite value.
\* 2^1020, about 1.1e307: nine times it is still finite.
Huge == Fin(HalfP, MaxExp - Prec - 3)

ConvInputs ==
    {FNeg(Huge), Dec(-27315, -2), Dec(-400, -1), Dec(0, 0), Dec(1, -20),
     Dec(200, -1), Dec(27315, -2), Dec(300, 0), Dec(1, 6), Huge,
     FMul(Dec(40, -1), Huge), MaxFinite}

\* The remaining public functions, each called on a few inputs; a conversion
\* is also called on the results of the conversion it inverts.
Call_celsius_to_kelvin ==
    \/ Invoke("celsius_to_kelvin",
              {<<tc>> : tc \in ConvInputs \cup {kelvin_to_celsius(t) : t \in ConvInputs}})
    \/ LET a == call.args
       IN  Return("celsius_to_kelvin",
                  Num(celsius_to_kelvin(a[1])), 0)

Call_kelvin_to_celsius ==
    \/ Invoke("kelvin_to_celsius",
              {<<tk>> : tk \in ConvInputs \cup {celsius_to_kelvin(t) : t \in ConvInputs}})
    \/ LET a == call.args
       IN  Return("kelvin_to_celsius",
                  Num(kelvin_to_celsius(a[1])), 0)

Call_kelvin_to_fahrenheit ==
    \/ Invoke("kelvin_to_fahrenheit", {<<tk>> : tk \in ConvInputs})
    \/ LET a == call.args
       IN  Return("kelvin_to_fahrenheit",
                  Num(kelvin_to_fahrenheit(a[1])), 0)

Call_fahrenheit_to_celsius ==
    \/ Invoke("fahrenheit_to_celsius",
              {<<tf>> : tf \in {Dec(-400, -1), Dec(320, -1), Dec(800, -1)}
                            \cup {kelvin_to_fahrenheit(t) : t \in ConvInputs}})
    \/ LET a == call.args
       IN  Return("fahrenheit_to_celsius",
                  Num(fahrenheit_to_celsius(a[1])), 0)

Call_fahrenheit_to_kelvin ==
    \/ Invoke("fahrenheit_to_kelvin",
              {<<tf>> : tf \in {Dec(-400, -1), Dec(320, -1), Dec(800, -1)}
                            \cup {kelvin_to_fahrenheit(t) : t \in ConvInputs}})
    \/ LET a == call.args
       IN  Return("fahrenheit_to_kelvin",
                  Num(fahrenheit_to_kelvin(a[1])), 0)

\* Air temperatures and dew points calculate_relative_humidity_percent is
\* called with: dew points below, at and above the air temperature in the
\* range 200 K to 400 K, a pair just above -237.3 Celsius (35.85 K) and a
\* pair of very large temperatures.
RhArgs ==
    {<<t2_k, td_k>> : t2_k \in {Dec(290, 0), Dec(300, 0)},
                      td_k \in {Dec(280, 0), Dec(288, 0), Dec(290, 0),
                                Dec(300, 0), Dec(3005, -1)}}
        \cup {<<Dec(200, 0), Dec(200, 0)>>, <<Dec(200, 0), Dec(201, 0)>>,
              <<Dec(399, 0), Dec(400, 0)>>, <<Dec(400, 0), Dec(400, 0)>>,
              <<Dec(36, 0), Dec(36, 0)>>, <<Dec(36, 0), Dec(40, 0)>>,
              <<FScale(One, 1000), FScale(One, 1001)>>}

Call_calculate_relative_humidity_percent ==
    \/ Invoke("calculate_relative_humidity_percent", RhArgs)
    \/ LET a == call.args
       IN  Return("calculate_relative_humidity_percent",
                  Num(calculate_relative_humidity_percent(a[1], a[2])), println_relative_humidity_percent)

Call_calculate_saturation_vapour_pressure ==
    \/ Invoke("calculate_saturation_vapour_pressure",
              {<<t2_k>> : t2_k \in {Dec(250, 0), Dec(280, 0), Dec(29815, -2),
                                    Dec(300, 0)}})
    \/ LET a == call.args
       IN  Return("calculate_saturation_vapour_pressure",
                  Num(calculate_saturation_vapour_pressure(a[1])), 0)

\* Temperatures below, at and above the triple point, each with both phases.
MultiphaseArgs ==
    {<<t2_k, phase>> : t2_k \in {Dec(24815, -2), Dec(260, 0), Dec(27316, -2),
                                 Dec(290, 0)},
                       phase \in {"Liquid", "Ice"}}

Call_calculate_saturation_vapour_pressure_multiphase ==
    \/ Invoke("calculate_saturation_vapour_pressure_multiphase", MultiphaseArgs)
    \/ LET a == call.args
       IN  Return("calculate_saturation_vapour_pressure_multiphase",
                  Num(calculate_saturation_vapour_pressure_multiphase(a[1], a[2])), 0)

Call_calculate_nonsaturation_vapour_pressure ==
    \/ Invoke("calculate_nonsaturation_vapour_pressure",
              {<<t2_k, rh>> : t2_k \in {Dec(300, 0)},
                     rh \in {Dec(0, 0), Dec(500, -1), Dec(1000, -1)}})
    \/ LET a == call.args
       IN  Return("calculate_nonsaturation_vapour_pressure",
                  Num(calculate_nonsaturation_vapour_pressure(a[1], a[2])), 0)

\* Wind speeds and target heights scale_windspeed is called with: the
\* reference height 10, the roughness length 0.01, and zero and negative
\* heights.
WindArgs ==
    {<<va, h>> : va \in {Dec(-50, -1), Dec(0, 0), Dec(35, -1), Dec(70, -1)},
                 h \in {Dec(-10, -1), Dec(0, 0), Dec(1, -2), Dec(11, -1),
                        Dec(20, -1), Dec(100, -1), Dec(500, -1)}}

Call_scale_windspeed ==
    \/ Invoke("scale_windspeed", WindArgs)
    \/ LET a == call.args
       IN  Return("scale_windspeed",
                  Num(scale_windspeed(a[1], a[2])), 0)

\* Relative humidities from 0 to saturation with air temperatures from 200 K
\* to 400 K, and saturation at a very large temperature.
DewPointArgs ==
    {<<rh, t2_k>> : rh \in {Dec(0, 0), Dec(1, -3), Dec(1, 0), Dec(560, -1),
                            Dec(990, -1), Dec(1000, -1)},
                    t2_k \in {Dec(200, 0), Dec(300, 0), Dec(30415, -2), Dec(400, 0)}}
        \cup {<<Dec(1000, -1), FScale(One, 1000)>>}

Call_calculate_dew_point_from_relative_humidity ==
    \/ Invoke("calculate_dew_point_from_relative_humidity", DewPointArgs)
    \/ LET a == call.args
       IN  Return("calculate_dew_point_from_relative_humidity",
                  Num(calculate_dew_point_from_relative_humidity(a[1], a[2])), 0)

Call_calculate_mean_radiant_temperature ==
    \/ Invoke("calculate_mean_radiant_temperature",
              {<<Dec(600, 0), Dec(500, 0), dsrp, Dec(350, 0), Dec(400, 0), Dec(-60, 0), cossza>> :
                  dsrp \in {Dec(0, 0), Dec(700, 0)}, cossza \in {Dec(1, -1), Dec(6, -1)}})
    \/ LET a == call.args
       IN  Return("calculate_mean_radiant_temperature",
                  Num(calculate_mean_radiant_temperature(a[1], a[2], a[3], a[4], a[5], a[6], a[7])), 0)

Call_calculate_wbgt_simple ==
    \/ Invoke("calculate_wbgt_simple",
              {<<t2_k, rh>> : t2_k \in {Dec(290, 0), Dec(300, 0)},
                     rh \in {Dec(500, -1), Dec(1000, -1)}})
    \/ LET a == call.args
       IN  Return("calculate_wbgt_simple",
                  Num(calculate_wbgt_simple(a[1], a[2])), 0)

Call_calculate_wbt ==
    \/ Invoke("calculate_wbt",
              {<<t2_k, rh>> : t2_k \in {Dec(290, 0), Dec(300, 0)},
                     rh \in {Dec(500, -1), Dec(1000, -1)}})
    \/ LET a == call.args
       IN  Return("calculate_wbt",
                  Num(calculate_wbt(a[1], a[2])), 0)

\* Air temperatures, mean radiant temperatures and 10 m wind speeds (one of
\* them negative) calculate_bgt is called with.
BgtArgs ==
    {<<t2_k, mrt, va>> : t2_k \in {Dec(280, 0), Dec(300, 0)},
                         mrt \in {Dec(300, 0), Dec(350, 0)},
                         va \in {Dec(-100, -1), Dec(50, -1), Dec(200, -1)}}

Call_calculate_bgt ==
    \/ Invoke("calculate_bgt", BgtArgs)
    \/ LET a == call.args
       IN  Return("calculate_bgt",
                  Num(calculate_bgt(a[1], a[2], a[3])), 0)

\* Arguments calculate_wbgt is called with: a radiant temperature above the
\* air temperature with a dew point below it, and a saturated air in radiant
\* equilibrium (mrt = td_k = t2_k).
WbgtArgs ==
    {<<t2_k, Dec(310, 0), va, Dec(290, 0)>> :
        t2_k \in {Dec(295, 0), Dec(300, 0)}, va \in {Dec(20, -1), Dec(200, -1)}}
        \cup {<<Dec(300, 0), Dec(300, 0), Dec(20, -1), Dec(300, 0)>>}

Call_calculate_wbgt ==
    \/ Invoke("calculate_wbgt", WbgtArgs)
    \/ LET a == call.args
       IN  Return("calculate_wbgt",
                  Num(calculate_wbgt(a[1], a[2], a[3], a[4])), println_relative_humidity_percent)

\* calculate_mrt_from_bgt is called on globe temperatures of its own and on
\* the globe temperatures calculate_bgt returns, with the same t2_k and va.
MrtFromBgtArgs ==
    {<<Dec(298, 0), bgt_k, Dec(100, -1)>> : bgt_k \in {Dec(296, 0), Dec(302, 0)}}
        \cup {<<a[1], calculate_bgt(a[1], a[2], a[3]), a[3]>> : a \in BgtArgs}

Call_calculate_mrt_from_bgt ==
    \/ Invoke("calculate_mrt_from_bgt", MrtFromBgtArgs)
    \/ LET a == call.args
       IN  Return("calculate_mrt_from_bgt",
                  Num(calculate_mrt_from_bgt(a[1], a[2], a[3])), 0)

Call_calculate_humidex ==
    \/ Invoke("calculate_humidex",
              {<<t2_k, td_k>> : t2_k \in {Dec(290, 0), Dec(300, 0)},
                       td_k \in {Dec(280, 0), Dec(288, 0)}})
    \/ LET a == call.args
       IN  Return("calculate_humidex",
                  Num(calculate_humidex(a[1], a[2])), 0)

Call_calculate_normal_effective_temperature ==
    \/ Invoke("calculate_normal_effective_temperature",
              {<<t2_k, va, rh>> : t2_k \in {Dec(290, 0), Dec(300, 0)},
                         va \in {Dec(20, -1)}, rh \in {Dec(500, -1), Dec(1000, -1)}})
    \/ LET a == call.args
       IN  Return("calculate_normal_effective_temperature",
                  Num(calculate_normal_effective_temperature(a[1], a[2], a[3])), 0)

Call_calculate_apparent_temperature ==
    \/ Invoke("calculate_apparent_temperature",
              {<<t2_k, va, rh>> : t2_k \in {Dec(290, 0), Dec(300, 0)},
                         va \in {Dec(20, -1)}, rh \in {Dec(500, -1), Dec(1000, -1)}})
    \/ LET a == call.args
       IN  Return("calculate_apparent_temperature",
                  Num(calculate_apparent_temperature(a[1], a[2], a[3])), println_apparent_temperature)

\* Air temperatures and wind speeds inside the validity range of the wind
\* chill formula (-50 .. 5 Celsius, 5 .. 80 km/h) and outside it.
WindChillArgs ==
    {<<t2_k, va>> : t2_k \in {Dec(270, 0), Dec(300, 0)},
                    va \in {Dec(0, 0), Dec(50, -1), Dec(500, -1)}}

Call_calculate_wind_chill ==
    \/ Invoke("calculate_wind_chill", WindChillArgs)
    \/ LET a == call.args
       IN  Return("calculate_wind_chill", Num(calculate_wind_chill(a[1], a[2])), 0)

Next ==
    \/ Call_celsius_to_kelvin
    \/ Call_kelvin_to_celsius
    \/ Call_kelvin_to_fahrenheit
    \/ Call_fahrenheit_to_celsius
    \/ Call_fahrenheit_to_kelvin
    \/ Call_calculate_relative_humidity_percent
    \/ Call_calculate_saturation_vapour_pressure
    \/ Call_calculate_saturation_vapour_pressure_multiphase
    \/ Call_calculate_nonsaturation_vapour_pressure
    \/ Call_scale_windspeed
    \/ Call_approximate_dsrp
    \/ Call_calculate_dew_point_from_relative_humidity
    \/ Call_calculate_mean_radiant_temperature
    \/ Call_calculate_utci
    \/ Call_calculate_wbgt_simple
    \/ Call_calculate_wbt
    \/ Call_calculate_bgt
    \/ Call_calculate_wbgt
    \/ Call_calculate_mrt_from_bgt
    \/ Call_calculate_humidex
    \/ Call_calculate_normal_effective_temperature
    \/ Call_calculate_apparent_temperature
    \/ Call_calculate_wind_chill
    \/ Call_calculate_heat_index_simplified
    \/ Call_calculate_heat_index_adjusted
    \/ Resume

Spec == Init /\ [][Next]_vars

NextUtci == Call_calculate_utci \/ Resume
SpecUtci == Init /\ [][NextUtci]_vars

\* A call of calculate_utci has ended, by a return or by a panic.
UtciEnded == pc \in {"returned", "panicked"} /\ call.fn = "calculate_utci"

\* C1: calculate_utci called with td_k = None and eh_pa = None never returns
\* a UTCI value: whatever t2_k, va and mrt are, the call fails with the
\* missing-humidity-input error "Missing input ehPa or td_k".
C1_MissingHumidityFails ==
    (UtciEnded /\ call.args[4].tag = "None" /\ call.args[5].tag = "None")
        => /\ ret.tag = "Panic"
           /\ ret.msg = "Missing input ehPa or td_k"
           /\ pc = "panicked"

C1_Witness ==
    /\ UtciEnded
    /\ call.args[4].tag = "None" /\ call.args[5].tag = "None"
    /\ ret.tag = "Panic"
    /\ call.args[1] = Dec(300, 0)

\* C2: the failure of calculate_utci with both td_k and eh_pa absent is a
\* typed error value, MissingHumidityInput, handed back to the caller, who is
\* not aborted by it and can go on to make further calls.
C2_MissingHumidityIsRecoverable ==
    (UtciEnded /\ call.args[4].tag = "None" /\ call.args[5].tag = "None")
        => /\ ret.tag = "Err"
           /\ ret.msg = "MissingHumidityInput"
           /\ pc = "returned"

\* C3: with eh_pa supplied, calculate_utci evaluates the polynomial on the
\* vapour pressure eh_pa / 10 exactly, and td_k has no influence: the call
\* with any other td_k, supplied or not, returns the same result.
C3_VapourPressureTakesPriority ==
    (UtciEnded /\ call.args[5].tag = "Some")
        => /\ ret = Num(celsius_to_kelvin(
                        calculate_utci_polynomial(kelvin_to_celsius(call.args[1]),
                                                  kelvin_to_celsius(call.args[3]),
                                                  call.args[2],
                                                  FDiv(call.args[5].v, Dec(100, -1)))))
           /\ \A td_k \in UtciDewPoints :
                  calculate_utci(call.args[1], call.args[2], call.args[3],
                                 td_k, call.args[5]) = ret

C3_Witness ==
    /\ UtciEnded
    /\ call.args[5].tag = "Some" /\ call.args[4].tag = "Some"
    /\ ret.tag = "Num" /\ IsFinite(ret.v)

\* C4: with only the dew point supplied, calculate_utci returns what it
\* returns for the vapour pressure e = calculate_saturation_vapour_pressure(t2_k)
\* * calculate_relative_humidity_percent(t2_k, td_k) / 100 and no dew point.
C4_DewPointDerivesVapourPressure ==
    (UtciEnded /\ call.args[4].tag = "Some" /\ call.args[5].tag = "None")
        => ret = calculate_utci(
                     call.args[1], call.args[2], call.args[3], None,
                     Some(FDiv(FMul(calculate_saturation_vapour_pressure(call.args[1]),
                                    calculate_relative_humidity_percent(call.args[1],
                                                                        call.args[4].v)),
                               Dec(1000, -1))))

C4_Witness ==
    /\ UtciEnded
    /\ call.args[4].tag = "Some" /\ call.args[5].tag = "None"
    /\ ret.tag = "Num" /\ IsFinite(ret.v)

NextHeat ==
    \/ Call_calculate_heat_index_simplified
    \/ Call_calculate_heat_index_adjusted
    \/ Resume
SpecHeat == Init /\ [][NextHeat]_vars

\* C6: calculate_heat_index_simplified(t2_k, rh) returns absent exactly when
\* the air temperature in Celsius is <= 20 (20.0 included), and a defined value
\* for every temperature above 20 Celsius, whatever rh is.
C6_SimplifiedGuard ==
    (pc = "returned" /\ call.fn = "calculate_heat_index_simplified")
        => IF FLe(kelvin_to_celsius(call.args[1]), Dec(200, -1))
           THEN ret = None
           ELSE ret.tag = "Some" /\ IsFinite(ret.v)

C6_Witness ==
    /\ pc = "returned" /\ call.fn = "calculate_heat_index_simplified"
    /\ kelvin_to_celsius(call.args[1]) = Dec(200, -1)
    /\ call.args[2] = Dec(800, -1)
    /\ ret = None

\* A call of calculate_heat_index_adjusted has returned.
HiaReturned == pc = "returned" /\ call.fn = "calculate_heat_index_adjusted"

\* T_F, RH and the Rothfusz regression value of the call that has returned.
HiaTF == kelvin_to_fahrenheit(call.args[1])
HiaRH == calculate_relative_humidity_percent(call.args[1], call.args[2])
HiaRegression == hi_regression(hia_array, HiaTF, HiaRH)

\* The simple estimate 0.5 * (T_F + 61 + (T_F - 68) * 1.2 + RH * 0.094).
SimpleEstimate(tf, rh) ==
    FMul(Dec(5, -1),
         FAdd(FAdd(FAdd(tf, Dec(610, -1)), FMul(FSub(tf, Dec(680, -1)), Dec(12, -1))),
              FMul(rh, Dec(94, -3))))

\* The regimes as listed: the first that matches, 0 when none does.
\*   1  80 < T_F < 112 and RH <= 13     dry correction
\*   2  80 < T_F < 87 and RH > 85       humid correction
\*   3  T_F < 80                        simple estimate
\*   4  (regression + T_F) / 2 < 80     simple estimate
ListedRegime(tf, rh, regression) ==
    IF FLt(Dec(800, -1), tf) /\ FLt(tf, Dec(1120, -1)) /\ FLe(rh, Dec(130, -1)) THEN 1
    ELSE IF FLt(Dec(800, -1), tf) /\ FLt(tf, Dec(870, -1)) /\ FLt(Dec(850, -1), rh) THEN 2
    ELSE IF FLt(tf, Dec(800, -1)) THEN 3
    ELSE IF FLt(FDiv(FAdd(regression, tf), Dec(20, -1)), Dec(800, -1)) THEN 4
    ELSE 0

\* The heat index in Fahrenheit of regime r = 1 .. 4.
ListedValue(r, tf, rh, regression) ==
    IF r = 1
    THEN FSub(regression,
              FMul(FDiv(FSub(Dec(130, -1), rh), Dec(40, -1)),
                   FSqrt(FSub(Dec(170, -1),
                              FDiv(FAbs(FSub(tf, Dec(950, -1))), Dec(170, -1))))))
    ELSE IF r = 2
    THEN FAdd(regression,
              FMul(FDiv(FSub(rh, Dec(850, -1)), Dec(100, -1)),
                   FDiv(FSub(Dec(870, -1), tf), Dec(50, -1))))
    ELSE SimpleEstimate(tf, rh)

\* C7: calculate_heat_index_adjusted tests the regimes in the listed order and
\* applies only the first that matches (at most one correction or replacement
\* per call); it returns absent if and only if none of the four matches.
C7_FirstListedRegimeOnly ==
    HiaReturned
        => ret = IF ListedRegime(HiaTF, HiaRH, HiaRegression) = 0 THEN None
                 ELSE Some(fahrenheit_to_kelvin(
                          ListedValue(ListedRegime(HiaTF, HiaRH, HiaRegression),
                                      HiaTF, HiaRH, HiaRegression)))

\* C8: for every input with T_F < 80, calculate_heat_index_adjusted returns
\* the Fahrenheit-to-Kelvin conversion of the simple estimate; the regression
\* value has no influence.
C8_SimpleEstimateBelow80 ==
    (HiaReturned /\ FLt(HiaTF, Dec(800, -1)))
        => ret = Some(fahrenheit_to_kelvin(SimpleEstimate(HiaTF, HiaRH)))

C8_Witness ==
    /\ HiaReturned
    /\ FLt(HiaTF, Dec(800, -1))
    /\ ret.tag = "Some" /\ IsFinite(ret.v)
    /\ ret.v # fahrenheit_to_kelvin(HiaRegression)

\* C9: when none of the first three regimes matches, the simple estimate is
\* used exactly when (regression + T_F) / 2 < 80, regression being the
\* Rothfusz regression value; otherwise the result is absent.
C9_AverageBelow80 ==
    (HiaReturned /\ ListedRegime(HiaTF, HiaRH, HiaRegression) \in {0, 4})
        => IF FLt(FDiv(FAdd(HiaRegression, HiaTF), Dec(20, -1)), Dec(800, -1))
           THEN ret = Some(fahrenheit_to_kelvin(SimpleEstimate(HiaTF, HiaRH)))
           ELSE ret = None

NextRad == Call_approximate_dsrp \/ Resume
SpecRad == Init /\ [][NextRad]_vars

\* C5: approximate_dsrp(fdir, cossza) returns absent for every cossza <= 0.1
\* (0.1 itself, zero and negative values included) and Some(fdir / cossza) for
\* every cossza > 0.1: below the threshold it never returns a number.
C5_DsrpGuard ==
    (pc = "returned" /\ call.fn = "approximate_dsrp")
        => IF FLe(call.args[2], Dec(1, -1))
           THEN ret = None
           ELSE ret = Some(FDiv(call.args[1], call.args[2]))

C5_Witness ==
    /\ pc = "returned" /\ call.fn = "approximate_dsrp"
    /\ call.args[2] = Dec(1, -1)
    /\ call.args[1] = Dec(1040, -1)
    /\ ret = None

\* The call that has ended, with a result or with a panic.
Ended(fn) == pc \in {"returned", "panicked"} /\ call.fn = fn

\* C10: an undefined result is an explicit absent value, never a number; the
\* functions that can return absent are exactly approximate_dsrp (absent
\* exactly when cossza <= 0.1), calculate_heat_index_simplified (absent exactly
\* when T <= 20 Celsius) and calculate_heat_index_adjusted (absent exactly
\* when none of the listed regimes matches); every call of any other public
\* function, wind chill outside its validity range included, ends by
\* returning a number.
C10_AbsentOnlyFromThree ==
    /\ Ended("approximate_dsrp")
           => /\ ret.tag \in {"Some", "None"}
              /\ ret = None <=> FLe(call.args[2], Dec(1, -1))
    /\ Ended("calculate_heat_index_simplified")
           => /\ ret.tag \in {"Some", "None"}
              /\ ret = None <=> FLe(kelvin_to_celsius(call.args[1]), Dec(200, -1))
    /\ Ended("calculate_heat_index_adjusted")
           => /\ ret.tag \in {"Some", "None"}
              /\ ret = None <=> ListedRegime(HiaTF, HiaRH, HiaRegression) = 0
    /\ (/\ pc \in {"returned", "panicked"}
        /\ call.fn \notin {"approximate_dsrp", "calculate_heat_index_simplified",
                           "calculate_heat_index_adjusted"})
           => ret.tag = "Num"

NextConv ==
    \/ Call_celsius_to_kelvin
    \/ Call_kelvin_to_celsius
    \/ Call_kelvin_to_fahrenheit
    \/ Call_fahrenheit_to_celsius
    \/ Call_fahrenheit_to_kelvin
    \/ Resume

SpecConv == Init /\ [][NextConv]_vars

\* x equals t up to the rounding of a few operations on values of the size of
\* t and of the offsets: |x - t| <= 16 * 2^-Prec * (|t| + 512).
Close(x, t) ==
    /\ IsFinite(x)
    /\ FLe(FAbs(FSub(x, t)),
           FMul(Fin(HalfP, 5 - 2 * Prec), FAdd(FAbs(t), Dec(512, 0))))

\* Each conversion, called on the result of the conversion it inverts at a
\* temperature t of S, returns t up to rounding.
RoundTrips(S) ==
    /\ Ended("kelvin_to_celsius")
           => \A t \in S : call.args = <<celsius_to_kelvin(t)>> => Close(ret.v, t)
    /\ Ended("celsius_to_kelvin")
           => \A t \in S : call.args = <<kelvin_to_celsius(t)>> => Close(ret.v, t)
    /\ Ended("fahrenheit_to_kelvin")
           => \A t \in S : call.args = <<kelvin_to_fahrenheit(t)>> => Close(ret.v, t)

C12_NoOutput == [][stdout' = stdout]_vars

NextGlobe ==
    \/ Call_scale_windspeed
    \/ Call_calculate_bgt
    \/ Call_calculate_wbgt
    \/ Call_calculate_mrt_from_bgt
    \/ Resume

SpecGlobe == Init /\ [][NextGlobe]_vars

\* C14: calculate_bgt(t2_k, mrt, va) returns a defined number, not NaN, when
\* the 10 m wind speed va is negative (t2_k and mrt physically plausible).
C14_NegativeWindDefined ==
    (Ended("calculate_bgt") /\ FLt(call.args[3], Zero))
        => ret.tag = "Num" /\ ~IsNaN(ret.v)

\* x recovers mrt up to the rounding errors of the two computations, which the
\* quartic's solution amplifies: |x - mrt| <= 2^11 * 2^-Prec * mrt (for f64,
\* 7e-11 K at 300 K).
Recovers(x, mrt) ==
    /\ IsFinite(x)
    /\ FLe(FAbs(FSub(x, mrt)), FMul(Fin(HalfP, 12 - 2 * Prec), mrt))

NearRel(x, y) ==
    /\ IsFinite(x)
    /\ FLe(FAbs(FSub(x, y)), FMul(Fin(HalfP, 3 - 2 * Prec), FAbs(y)))

\* C16: for h > 0, scale_windspeed(va, h) = va * log10(h / 0.01) / log10(10 / 0.01):
\* it returns va at the reference height h = 10 and 0 at h = 0.01, and it is
\* proportional to va (twice the wind gives twice the result).
C16_LogProfile ==
    (Ended("scale_windspeed") /\ FLt(Zero, call.args[2]))
        => /\ NearRel(ret.v,
                      FDiv(FMul(call.args[1], FLog10(FDiv(call.args[2], Dec(1, -2)))),
                           FLog10(FDiv(Dec(100, -1), Dec(1, -2)))))
           /\ call.args[2] = Dec(100, -1) => NearRel(ret.v, call.args[1])
           /\ call.args[2] = Dec(1, -2) => ret.v = Zero
           /\ call.args[1] = Dec(70, -1)
                  => ret.v = FMul(Two, scale_windspeed(Dec(35, -1), call.args[2]))

C16_Witness ==
    /\ Ended("scale_windspeed")
    /\ call.args = <<Dec(70, -1), Dec(100, -1)>>
    /\ NearRel(ret.v, Dec(70, -1))

\* C17 (as claimed): scale_windspeed(va, h) returns NaN for every h <= 0.
C17_NonPositiveHeightNaN ==
    (Ended("scale_windspeed") /\ FLe(call.args[2], Zero))
        => ret.tag = "Num" /\ IsNaN(ret.v)

\* C17 (amended): scale_windspeed(va, h) returns NaN for every h < 0; for
\* h = 0 it returns -inf when va > 0, +inf when va < 0 and NaN when va = 0.
\* A non-positive h is neither rejected nor clamped.
C17_NonPositiveHeightUndefined ==
    (Ended("scale_windspeed") /\ FLe(call.args[2], Zero))
        => /\ ret.tag = "Num"
           /\ ret.v = IF FLt(call.args[2], Zero) \/ call.args[1] = Zero THEN NaN
                      ELSE IF FLt(Zero, call.args[1]) THEN Inf(-1)
                      ELSE Inf(1)

C17_Witness ==
    /\ Ended("scale_windspeed")
    /\ call.args = <<Dec(70, -1), Zero>>
    /\ ret.v = Inf(-1)

\* x is y or more, up to the rounding of two operations.
NotBelow(x, y) == FLe(y, x) \/ NearRel(x, y)

\* The three component temperatures, in Celsius, of the call of calculate_wbgt
\* in progress: wet bulb, globe and air.
WbgtComponents ==
    <<kelvin_to_celsius(calculate_wbt(call.args[1],
          calculate_relative_humidity_percent(call.args[1], call.args[4]))),
      kelvin_to_celsius(calculate_bgt(call.args[1], call.args[2], call.args[3])),
      kelvin_to_celsius(call.args[1])>>

\* C19: calculate_wbgt(t2_k, mrt, va, td_k) is the Kelvin conversion of
\* 0.7 Tw + 0.2 Tg + 0.1 Ta in Celsius, with Tw the wet bulb temperature at
\* the relative humidity of (t2_k, td_k), Tg the globe temperature and Ta the
\* air temperature; the weights sum to 1, so the result lies between the
\* smallest and the largest component and equals them when they are equal.
C19_WeightedSum ==
    Ended("calculate_wbgt")
        => Let(WbgtComponents, LAMBDA c :
           /\ ret.tag = "Num"
           /\ NearRel(ret.v,
                      celsius_to_kelvin(
                          FAdd(FAdd(FMul(Dec(7, -1), c[1]), FMul(Dec(2, -1), c[2])),
                               FMul(Dec(1, -1), c[3]))))
           /\ \E i \in 1..3 : NotBelow(ret.v, celsius_to_kelvin(c[i]))
           /\ \E i \in 1..3 : NotBelow(celsius_to_kelvin(c[i]), ret.v))

C19_Witness ==
    /\ Ended("calculate_wbgt")
    /\ call.args = <<Dec(300, 0), Dec(300, 0), Dec(20, -1), Dec(300, 0)>>
    /\ FLe(FAbs(FSub(ret.v, Dec(300, 0))), One)

NextHumid ==
    \/ Call_calculate_relative_humidity_percent
    \/ Call_calculate_saturation_vapour_pressure
    \/ Call_calculate_saturation_vapour_pressure_multiphase
    \/ Call_calculate_nonsaturation_vapour_pressure
    \/ Call_calculate_dew_point_from_relative_humidity
    \/ Resume

SpecHumid == Init /\ [][NextHumid]_vars

\* The Magnus vapour pressure e(T) = 6.11 * 10^(7.5 T / (237.3 + T)), T in
\* Celsius.
Magnus(t_c) ==
    FMul(Dec(611, -2),
         FPowf(Dec(100, -1),
               FDiv(FMul(Dec(75, -1), t_c), FAdd(Dec(2373, -1), t_c))))

\* The call of calculate_relative_humidity_percent that has ended returned
\* 100 e(td) / e(t2), which is exactly 100 when td_k = t2_k and above 100
\* when td_k > t2_k.
Unclamped ==
    /\ ret.tag = "Num"
    /\ NearRel(ret.v,
               FMul(FDiv(Magnus(kelvin_to_celsius(call.args[2])),
                         Magnus(kelvin_to_celsius(call.args[1]))),
                    Dec(1000, -1)))
    /\ FEq(call.args[2], call.args[1]) => FEq(ret.v, Dec(1000, -1))
    /\ FGt(call.args[2], call.args[1]) => FGt(ret.v, Dec(1000, -1))

\* C18 (as claimed): calculate_relative_humidity_percent(t2_k, td_k) returns
\* 100 e(td) / e(t2) with the Magnus e(T) = 6.11 * 10^(7.5 T / (237.3 + T)),
\* not clamped: exactly 100 when td_k = t2_k, and above 100 whenever the dew
\* point exceeds the air temperature, both above -237.3 Celsius.
C18_UnclampedAbovePole ==
    (/\ Ended("calculate_relative_humidity_percent")
     /\ \A i \in 1..2 : FGt(kelvin_to_celsius(call.args[i]), Dec(-2373, -1)))
        => Unclamped

\* C18 (amended): the same for an air temperature and a dew point between
\* 200 K and 400 K.
C18_UnclampedInRange ==
    (/\ Ended("calculate_relative_humidity_percent")
     /\ \A i \in 1..2 : /\ FLe(Dec(200, 0), call.args[i])
                        /\ FLe(call.args[i], Dec(400, 0)))
        => Unclamped

C18_Witness ==
    /\ Ended("calculate_relative_humidity_percent")
    /\ call.args = <<Dec(300, 0), Dec(3005, -1)>>
    /\ FGt(ret.v, Dec(1000, -1))

\* 6.1121 * exp(a * (T - 273.16) / (T + b))
PhaseCurve(t, a, b) ==
    FMul(Dec(61121, -4),
         FExp(FMul(a, FDiv(FSub(t, Dec(27316, -2)), FAdd(t, b)))))

\* C20: calculate_saturation_vapour_pressure_multiphase selects its branch by
\* the phase alone: Liquid returns 6.1121 * exp(17.502 (T - 273.16) / (T - 32.19))
\* and Ice returns 6.1121 * exp(22.587 (T - 273.16) / (T + 0.7)) at every T,
\* below and above the triple point alike, and both return 6.1121 at T = 273.16.
C20_BranchByPhaseAlone ==
    Ended("calculate_saturation_vapour_pressure_multiphase")
        => /\ ret.tag = "Num"
           /\ call.args[2] = "Liquid"
                  => NearRel(ret.v, PhaseCurve(call.args[1], Dec(17502, -3),
                                               Dec(-3219, -2)))
           /\ call.args[2] = "Ice"
                  => NearRel(ret.v, PhaseCurve(call.args[1], Dec(22587, -3),
                                               Dec(7, -1)))
           /\ call.args[1] = Dec(27316, -2) => ret.v = Dec(61121, -4)

C20_Witness ==
    /\ Ended("calculate_saturation_vapour_pressure_multiphase")
    /\ call.args = <<Dec(290, 0), "Ice">>
    /\ NearRel(ret.v, PhaseCurve(Dec(290, 0), Dec(22587, -3), Dec(7, -1)))
    /\ ~NearRel(ret.v, PhaseCurve(Dec(290, 0), Dec(17502, -3), Dec(-3219, -2)))

\* The term g[i] * t2_k^(i - 2) of the call of
\* calculate_saturation_vapour_pressure in progress.
SvpTerm(i) == FMul(At(svp_g, i), FPowi(call.args[1], i - 2))

\* g[7] * ln(t2_k) followed by the seven terms of g[0] .. g[6], with the
\* exponents -2 .. 4, added once each in the order of the indices.
SvpSevenTerms ==
    FAdd(FAdd(FAdd(FAdd(FAdd(FAdd(FAdd(
        FMul(At(svp_g, 7), FLn(call.args[1])),
        SvpTerm(0)), SvpTerm(1)), SvpTerm(2)), SvpTerm(3)), SvpTerm(4)),
        SvpTerm(5)), SvpTerm(6))

\* C21: the summation loop of calculate_saturation_vapour_pressure ends after
\* exactly seven iterations, adding g[i] * t2_k^(i - 2) once for each of
\* i = 0 .. 6; g[7] multiplies ln(t2_k) only; the result is the exponential of
\* the sum times 0.01.
C21_SevenTermsThenExp ==
    Ended("calculate_saturation_vapour_pressure")
        => /\ ret.tag = "Num"
           /\ ret.v = FMul(FExp(SvpSevenTerms), Dec(1, -2))
           /\ svp_loop(svp_g, call.args[1], 7, Zero) = Zero
           /\ svp_loop(svp_g, call.args[1], 6, Zero) = SvpTerm(6)

C21_Witness ==
    /\ Ended("calculate_saturation_vapour_pressure")
    /\ call.args = <<Dec(29815, -2)>>
    /\ ret.v = FMul(FExp(SvpSevenTerms), Dec(1, -2))
    /\ FLt(Dec(30, 0), ret.v)
    /\ FLt(ret.v, Dec(34, 0))

\* C22: in calculate_heat_index_adjusted the fourth regime is never taken for
\* an input with RH >= 0: the result is defined exactly when T_F < 80, or
\* 80 < T_F < 112 with RH <= 13, or 80 < T_F < 87 with RH > 85, and absent for
\* every other input (T_F = 80, 80 < T_F < 112 with 13 < RH <= 85, 87 <= T_F
\* with RH > 13, T_F >= 112).
C22_FourthRegimeNeverTaken ==
    (HiaReturned /\ FGe(HiaRH, Zero))
        => /\ hia_branch(HiaTF, HiaRH, hi_simple_estimate(HiaTF, HiaRH)) # 4
           /\ ret.tag \in {"Some", "None"}
           /\ ret.tag = "Some"
                  <=> \/ FLt(HiaTF, Dec(800, -1))
                      \/ /\ FLt(Dec(800, -1), HiaTF) /\ FLt(HiaTF, Dec(1120, -1))
                         /\ FLe(HiaRH, Dec(130, -1))
                      \/ /\ FLt(Dec(800, -1), HiaTF) /\ FLt(HiaTF, Dec(870, -1))
                         /\ FLt(Dec(850, -1), HiaRH)

C22_Witness ==
    /\ HiaReturned
    /\ call.args = <<Dec(300, 0), Dec(275, 0)>>
    /\ FLt(Dec(130, -1), HiaRH) /\ FLe(HiaRH, Dec(850, -1))
    /\ FLt(FDiv(FAdd(HiaRegression, HiaTF), Dec(20, -1)), Dec(800, -1))
    /\ ret = None

\* The call of calculate_dew_point_from_relative_humidity that has ended
\* returned t2_k (up to rounding) at rh = 100, a dew point below t2_k for
\* lo <= rh <= hi, and NaN at rh = 0.
InvertsMagnus(lo, hi) ==
    /\ ret.tag = "Num"
    /\ call.args[1] = Dec(1000, -1) => Close(ret.v, call.args[2])
    /\ (FLe(lo, call.args[1]) /\ FLe(call.args[1], hi)) => FLt(ret.v, call.args[2])
    /\ call.args[1] = Zero => IsNaN(ret.v)

\* C23 (as claimed): calculate_dew_point_from_relative_humidity(100, t2_k)
\* returns t2_k for every air temperature above -243.04 Celsius; for rh in
\* (0, 100) the dew point is below t2_k; there is no guard, and rh = 0 gives
\* NaN.
C23_SaturationEveryTemperature ==
    (/\ Ended("calculate_dew_point_from_relative_humidity")
     /\ FGt(kelvin_to_celsius(call.args[2]), Dec(-24304, -2)))
        => InvertsMagnus(Dec(1, -3), Dec(990, -1))

\* C23 (amended): the same for air temperatures between 200 K and 400 K, with
\* t2_k returned up to rounding at rh = 100 and the dew point below t2_k for
\* rh between 0.001 and 99.99.
C23_SaturationInRange ==
    (/\ Ended("calculate_dew_point_from_relative_humidity")
     /\ FLe(Dec(200, 0), call.args[2]) /\ FLe(call.args[2], Dec(400, 0)))
        => InvertsMagnus(Dec(1, -3), Dec(9999, -2))

C23_Witness ==
    /\ Ended("calculate_dew_point_from_relative_humidity")
    /\ call.args = <<Dec(1000, -1), Dec(30415, -2)>>
    /\ Close(ret.v, Dec(30415, -2))

\* x and y are the same value, or finite and equal up to rounding.
Same(x, y) == x = y \/ Close(x, y)

\* fahrenheit_to_kelvin agrees with celsius_to_kelvin after
\* fahrenheit_to_celsius on the temperature it was called with, and
\* fahrenheit_to_celsius, called on kelvin_to_fahrenheit(tk) for a tk of S,
\* agrees with kelvin_to_celsius(tk).
PathsAgree(S) ==
    /\ Ended("fahrenheit_to_kelvin")
           => Same(ret.v, celsius_to_kelvin(fahrenheit_to_celsius(call.args[1])))
    /\ Ended("fahrenheit_to_celsius")
           => \A tk \in S : call.args = <<kelvin_to_fahrenheit(tk)>>
                                => Same(ret.v, kelvin_to_celsius(tk))

\* C24 (as claimed): the two Fahrenheit paths agree: for every tf,
\* fahrenheit_to_kelvin(tf) = celsius_to_kelvin(fahrenheit_to_celsius(tf)), and
\* for every tk, fahrenheit_to_celsius(kelvin_to_fahrenheit(tk)) =
\* kelvin_to_celsius(tk).
C24_PathsAgreeEverywhere == PathsAgree(ConvInputs)

\* C24 (amended): the first equation for every tf and the second for every tk
\* with |tk| <= 2^1020, where (tk - 273.15) * 9 does not overflow; both up to
\* rounding.
C24_PathsAgreeInRange == PathsAgree({tk \in ConvInputs : FLe(FAbs(tk), Huge)})

C24_Witness ==
    /\ Ended("fahrenheit_to_celsius")
    /\ call.args = <<kelvin_to_fahrenheit(Dec(300, 0))>>
    /\ Close(ret.v, kelvin_to_celsius(Dec(300, 0)))

=============================================================================
